---- MODULE Spec2Model ----
(***************************************************************************)
(* Model of the loglog outline engine: the editor's tree model             *)
(* (gui/src/loglog_tree_model.py), its parser and serializer, the          *)
(* selection manager, and the per-document undo/redo log of the editor     *)
(* (gui/src/loglog_gui.py).                                                *)
(*                                                                         *)
(* Text is a sequence of one-character strings.  A node is identified by   *)
(* an integer; node ids (uuid4 strings in the code) are in one-to-one      *)
(* correspondence with node objects, so the same integer stands for both.  *)
(***************************************************************************)
EXTENDS Integers, Sequences, FiniteSets, TLC

\* ---------------------------------------------------------------- bounds
\* number of lines of an input text
MaxLines == 3
\* number of node objects (root included) alive in one tree when a node is
\* constructed outside the parser
MaxLive == 4
\* length of a node's content that a merge may produce
MaxContentLen == 1
\* number of node objects a behaviour may construct: the first root and two
\* loads of a text of MaxLines lines
MaxIds == 2 * MaxLines + 3

None == 0 - 1
Ids == 1..MaxIds
NodeOrNone == Ids \cup {None}

VARIABLES
    \* LogLogNode fields, one function per field
    content, node_type, todo_status, children, parent,
    is_folded, is_selected, is_focused,
    \* LogLogTree
    root, node_index,
    \* SelectionManager
    selected_nodes, focused_node, anchor_node,
    \* TreeRenderer
    selection_anchor,
    \* TabViewport
    undo_stack, redo_stack,
    \* number of node objects constructed so far
    next_id,
    \* input text, text written by the last save, last operation and its result
    text, saved, op, result,
    \* the level or node given to the last fold operation
    last_arg,
    \* InteractionState of the KeyboardController
    state_selected_nodes, current_node, multi_select_anchor,
    \* TreeRenderer.viewports: the viewport that is not the active one
    other_doc,
    \* command-line core: the tree build_tree_from_text made, the Markdown
    \* to_md wrote for it and the outline from_md made of that
    cli_tree, md, md_txt,
    \* node state before / after the last recorded action (history)
    hist

nodeVars == <<content, node_type, todo_status, children, parent, is_folded>>
flagVars == <<is_selected, is_focused>>
treeVars == <<root, node_index, next_id>>
selVars  == <<selected_nodes, focused_node, anchor_node, selection_anchor>>
undoVars == <<undo_stack, redo_stack>>
ioVars   == <<text, saved, last_arg>>
ctlVars  == <<state_selected_nodes, current_node, multi_select_anchor>>
cliVars  == <<cli_tree, md, md_txt>>
docVars  == <<other_doc, cliVars>>
vars == <<nodeVars, flagVars, treeVars, selVars, undoVars, ioVars, ctlVars, docVars,
          op, result, hist>>

\* ---------------------------------------------------------------- strings
IsSpace(c) == c \in {" ", "\t", "\n"}

RECURSIVE LStrip(_)
LStrip(s) == IF s # <<>> /\ IsSpace(Head(s)) THEN LStrip(Tail(s)) ELSE s

RECURSIVE RStrip(_)
RStrip(s) ==
    IF s # <<>> /\ IsSpace(s[Len(s)]) THEN RStrip(SubSeq(s, 1, Len(s) - 1)) ELSE s

Strip(s) == RStrip(LStrip(s))

StartsWith(s, p) == Len(s) >= Len(p) /\ SubSeq(s, 1, Len(p)) = p

DropN(s, n) == SubSeq(s, n + 1, Len(s))

RECURSIVE SplitAcc(_, _, _)
SplitAcc(s, cur, acc) ==
    IF s = <<>> THEN Append(acc, cur)
    ELSE IF Head(s) = "\n" THEN SplitAcc(Tail(s), <<>>, Append(acc, cur))
    ELSE SplitAcc(Tail(s), Append(cur, Head(s)), acc)

\* str.split('\n')
Split(s) == SplitAcc(s, <<>>, <<>>)

RECURSIVE Join(_)
\* '\n'.join(lines)
Join(lines) ==
    IF lines = <<>> THEN <<>>
    ELSE IF Len(lines) = 1 THEN lines[1]
    ELSE lines[1] \o <<"\n">> \o Join(Tail(lines))

RECURSIVE Spaces(_)
Spaces(n) == IF n <= 0 THEN <<>> ELSE <<" ">> \o Spaces(n - 1)

RECURSIVE NonBlank(_)
\* (line for line in lines if line.strip())
NonBlank(lines) ==
    IF lines = <<>> THEN <<>>
    ELSE IF Strip(Head(lines)) = <<>> THEN NonBlank(Tail(lines))
    ELSE <<Head(lines)>> \o NonBlank(Tail(lines))

\* ---------------------------------------------------------------- LogLogNode
\* _parse_todo_status applied to a content / type pair
ParseTodoStatus(c0, ty) ==
    LET c == Strip(c0) IN
    IF StartsWith(c, <<"[", "]">>)
      THEN [content |-> Strip(DropN(c, 2)), node_type |-> "todo", todo_status |-> "pending"]
    ELSE IF StartsWith(c, <<"[", "x", "]">>)
      THEN [content |-> Strip(DropN(c, 3)), node_type |-> "todo", todo_status |-> "complete"]
    ELSE IF StartsWith(c, <<"[", "-", "]">>)
      THEN [content |-> Strip(DropN(c, 3)), node_type |-> "todo", todo_status |-> "progress"]
    ELSE IF StartsWith(c, <<"[", "?", "]">>)
      THEN [content |-> Strip(DropN(c, 3)), node_type |-> "todo", todo_status |-> "unknown"]
    ELSE [content |-> c0,
          node_type |-> IF ty # "root" THEN "item" ELSE ty,
          todo_status |-> "none"]

\* LogLogNode(content, node_type): content, type and status of the new node
NewNode(c, ty) == ParseTodoStatus(Strip(c), ty)

\* ---------------------------------------------------------------- parser
RECURSIVE IndentWidth(_)
IndentWidth(line) ==
    IF line = <<>> THEN 0
    ELSE IF Head(line) = " " THEN 1 + IndentWidth(Tail(line))
    ELSE IF Head(line) = "\t" THEN 4 + IndentWidth(Tail(line))
    ELSE 0

LineLevel(line) == IndentWidth(line) \div 4

\* while len(stack) > level + 1: stack.pop()
PopStack(stack, level) ==
    IF Len(stack) > level + 1 THEN SubSeq(stack, 1, level + 1) ELSE stack

\* the line's text with the leading dash removed
LineContent(line) ==
    LET c == LStrip(line) IN
    IF StartsWith(c, <<"-", " ">>) THEN DropN(c, 2) ELSE c

RECURSIVE ParseLines(_, _, _)
\* The loop of load_from_text.  Nodes are numbered in creation order, 0 is
\* the root; each entry carries the index of the node it was attached to.
ParseLines(lines, stack, ns) ==
    IF lines = <<>> THEN ns
    ELSE LET line == Head(lines) IN
         IF Strip(line) = <<>> THEN ParseLines(Tail(lines), stack, ns)
         ELSE LET nd == NewNode(LineContent(line), "item")
                  st == PopStack(stack, LineLevel(line))
                  e  == [content |-> nd.content, node_type |-> nd.node_type,
                         todo_status |-> nd.todo_status, par |-> st[Len(st)]]
              IN ParseLines(Tail(lines), Append(st, Len(ns) + 1), Append(ns, e))

ParseText(t) ==
    IF Strip(t) = <<>> THEN <<>> ELSE ParseLines(Split(t), <<0>>, <<>>)

RECURSIVE ChildrenOf(_, _, _)
\* indices attached to p, in attachment order, from index i on
ChildrenOf(ns, p, i) ==
    IF i > Len(ns) THEN <<>>
    ELSE IF ns[i].par = p THEN <<i>> \o ChildrenOf(ns, p, i + 1)
    ELSE ChildrenOf(ns, p, i + 1)

\* ---------------------------------------------------------------- serializer
\* variant that writes the pending marker with a space inside the brackets
StatusPrefixSpaced(st) ==
    IF st = "pending" THEN <<"[", " ", "]">>
    ELSE IF st = "progress" THEN <<"[", "-", "]">>
    ELSE IF st = "complete" THEN <<"[", "x", "]">>
    ELSE IF st = "unknown" THEN <<"[", "?", "]">>
    ELSE <<"[", " ", "]">>

StatusPrefix(st) ==
    IF st = "pending" THEN <<"[", "]">>
    ELSE IF st = "progress" THEN <<"[", "-", "]">>
    ELSE IF st = "complete" THEN <<"[", "x", "]">>
    ELSE IF st = "unknown" THEN <<"[", "?", "]">>
    ELSE <<"[", "]">>

NodeLine(n, level) ==
    IF node_type[n] = "todo"
    THEN Spaces(4 * level) \o StatusPrefix(todo_status[n]) \o <<" ">> \o content[n]
    ELSE Spaces(4 * level) \o <<"-", " ">> \o content[n]

RECURSIVE SerializeKids(_, _, _, _)
RECURSIVE SerializeToLoglog(_, _, _)
\* serialize_to_loglog of node n at the given level; folded is the fold flag
\* of every node
SerializeToLoglog(n, level, folded) ==
    LET own  == IF node_type[n] # "root" THEN <<NodeLine(n, level)>> ELSE <<>>
        kids == IF ~folded[n]
                THEN SerializeKids(children[n],
                                   level + (IF node_type[n] = "root" THEN 0 ELSE 1),
                                   folded, 1)
                ELSE <<>>
    IN Join(NonBlank(own \o kids))

SerializeKids(cs, level, folded, i) ==
    IF i > Len(cs) THEN <<>>
    ELSE Split(SerializeToLoglog(cs[i], level, folded))
         \o SerializeKids(cs, level, folded, i + 1)

\* LogLogTree.serialize
Serialize == SerializeToLoglog(root, 0, is_folded)

\* ---------------------------------------------------------------- inputs
Indents == { <<>>, <<"\t">>,
             <<" ", " ", " ", " ", " ", " ", " ", " ">> }
Bodies == { <<"-", " ", "a">>,
            <<"[", "]", " ", "a">>,
            <<"[", " ", "]", " ", "b">>,
            <<"[", "-", "]", "b">>,
            <<"-", " ">> }
InputLines == { i \o b : i \in Indents, b \in Bodies }
                  \cup { <<>>, <<" ", " ", "-", " ", "a">> }
Texts == { Join(ls) : ls \in UNION { [1..k -> InputLines] : k \in 0..MaxLines } }

\* ---------------------------------------------------------------- history
\* content, type and status of a node: its observable state
Triple(n) == [content |-> content[n], node_type |-> node_type[n],
              todo_status |-> todo_status[n]]

NoTriple == [content |-> <<>>, node_type |-> "item", todo_status |-> "none"]

\* hist follows the last recorded action: its target, the target's state
\* before and after it, and whether it was since undone and redone
NoHist == [phase |-> "none", node |-> None, pre |-> NoTriple, post |-> NoTriple]

\* the place of a viewport that has not been created
NoDoc ==
    [content |-> [n \in Ids |-> <<>>], node_type |-> [n \in Ids |-> "item"],
     todo_status |-> [n \in Ids |-> "none"], children |-> [n \in Ids |-> <<>>],
     parent |-> [n \in Ids |-> None], is_folded |-> [n \in Ids |-> FALSE],
     is_selected |-> [n \in Ids |-> FALSE], is_focused |-> [n \in Ids |-> FALSE],
     root |-> None, node_index |-> {}, selected_nodes |-> {}, focused_node |-> None,
     anchor_node |-> None, undo_stack |-> <<>>, redo_stack |-> <<>>]

\* ---------------------------------------------------------------- initial state
\* LogLogTree() inside a new TabViewport: node 1 is the root
InitTree ==
    /\ content = [n \in Ids |-> <<>>]
    /\ node_type = [n \in Ids |-> IF n = 1 THEN "root" ELSE "item"]
    /\ todo_status = [n \in Ids |-> "none"]
    /\ children = [n \in Ids |-> <<>>]
    /\ parent = [n \in Ids |-> None]
    /\ is_folded = [n \in Ids |-> FALSE]
    /\ is_selected = [n \in Ids |-> FALSE]
    /\ is_focused = [n \in Ids |-> FALSE]
    /\ root = 1
    /\ node_index = {}
    /\ next_id = 2
    /\ selected_nodes = {}
    /\ focused_node = None
    /\ anchor_node = None
    /\ selection_anchor = None
    /\ undo_stack = <<>>
    /\ redo_stack = <<>>
    /\ saved = <<>>
    /\ op = "init"
    /\ result = TRUE
    /\ hist = NoHist
    /\ last_arg = 0
    /\ state_selected_nodes = <<>>
    /\ current_node = None
    /\ multi_select_anchor = None
    /\ other_doc = NoDoc
    /\ cli_tree = <<>>
    /\ md = <<>>
    /\ md_txt = <<>>

\* ---------------------------------------------------------------- load / save
\* LogLogTree.load_from_text(t): the new root is node next_id, the node of
\* the i-th non-blank line is node next_id + i.  The objects of the replaced
\* tree are no longer reachable from the tree: only their identity stays
\* observable (a stale reference or id), so their fields leave the state.
LoadTreeFromText(t) ==
    \E ns \in {ParseText(t)} :
    \E r \in {next_id} :
    \E new \in {(next_id + 1)..(next_id + Len(ns))} :
    /\ r + Len(ns) <= MaxIds
    /\ root' = r
    /\ next_id' = r + Len(ns) + 1
    /\ content' = [n \in Ids |-> IF n \in new THEN ns[n - r].content ELSE <<>>]
    /\ node_type' = [n \in Ids |-> IF n = r THEN "root"
                                   ELSE IF n \in new THEN ns[n - r].node_type
                                   ELSE "item"]
    /\ todo_status' = [n \in Ids |-> IF n \in new THEN ns[n - r].todo_status
                                     ELSE "none"]
    /\ parent' = [n \in Ids |-> IF n \in new THEN r + ns[n - r].par ELSE None]
    /\ children' = [n \in Ids |->
                      IF n = r \/ n \in new
                      THEN LET cs == ChildrenOf(ns, n - r, 1)
                           IN [j \in 1..Len(cs) |-> r + cs[j]]
                      ELSE <<>>]
    /\ is_folded' = [n \in Ids |-> FALSE]
    /\ is_selected' = [n \in Ids |-> FALSE]
    /\ is_focused' = [n \in Ids |-> FALSE]
    /\ node_index' = IF Strip(t) = <<>> THEN node_index ELSE new
    /\ selected_nodes' = {}
    /\ focused_node' = None
    /\ anchor_node' = None

\* load_content of a viewport: the renderer's anchor and the viewport's
\* stacks stay
LoadFromText(t) ==
    /\ LoadTreeFromText(t)
    /\ UNCHANGED <<selection_anchor, undoVars>>

\* TabViewport.load_content with the input text
LoadContent ==
    /\ op = "init"
    /\ LoadFromText(text)
    /\ op' = "load"
    /\ result' = TRUE
    /\ UNCHANGED <<ioVars, ctlVars, docVars, hist>>

\* TreeRenderer.save_to_file
SaveToFile ==
    /\ saved' = Serialize
    /\ op' = "save"
    /\ result' = TRUE
    /\ UNCHANGED <<nodeVars, flagVars, treeVars, selVars, undoVars, text, last_arg, ctlVars, docVars, hist>>

\* load_content of the text the last save wrote
Reload ==
    /\ op = "save"
    /\ LoadFromText(saved)
    /\ op' = "reload"
    /\ result' = TRUE
    /\ UNCHANGED <<ioVars, ctlVars, docVars, hist>>

\* ---------------------------------------------------------------- SpecParse
InitParse == InitTree /\ text \in Texts
NextParse == LoadContent \/ (op = "load" /\ SaveToFile) \/ Reload
SpecParse == InitParse /\ [][NextParse]_vars

\* ---------------------------------------------------------------- lists
Range(s) == {s[i] : i \in 1..Len(s)}

\* list.index(x), counted from 1; x occurs in s
IndexOf(s, x) == CHOOSE i \in 1..Len(s) : s[i] = x /\ \A j \in 1..(i - 1) : s[j] # x

\* list.remove(x): the first occurrence goes
RemoveFirst(s, x) ==
    IF x \notin Range(s) THEN s
    ELSE SubSeq(s, 1, IndexOf(s, x) - 1) \o SubSeq(s, IndexOf(s, x) + 1, Len(s))

\* list.insert(pos, x), pos counted from 0 and clamped to the list
InsertAt(s, pos, x) ==
    LET q == IF pos > Len(s) THEN Len(s) ELSE IF pos < 0 THEN 0 ELSE pos
    IN SubSeq(s, 1, q) \o <<x>> \o SubSeq(s, q + 1, Len(s))

\* exchange the entries at positions i and j
SwapAt(s, i, j) == [s EXCEPT ![i] = s[j], ![j] = s[i]]

\* ---------------------------------------------------------------- node store
\* The fields of all nodes that the structural and content operations
\* change, as one value, so that operations compose as in the code.
Store == [children |-> children, parent |-> parent, content |-> content,
          node_type |-> node_type, todo_status |-> todo_status]

Commit(S) ==
    /\ children' = S.children
    /\ parent' = S.parent
    /\ content' = S.content
    /\ node_type' = S.node_type
    /\ todo_status' = S.todo_status

\* the root of the current tree and the nodes constructed since it was made
Live == root..(next_id - 1)

\* room for one more node object
CanConstruct == next_id <= MaxIds /\ next_id - root < MaxLive

\* remove_from_parent
RemoveFromParentS(S, n) ==
    IF S.parent[n] # None
    THEN [S EXCEPT !.children[S.parent[n]] = RemoveFirst(@, n), !.parent[n] = None]
    ELSE S

\* variant of add_child that does not detach the child first
AddChildNoDetachS(S, p, c, pos) ==
    [S EXCEPT !.children[p] = InsertAt(@, IF pos = None THEN Len(@) ELSE pos, c),
              !.parent[c] = p]

\* add_child(child, position)
AddChildS(S, p, c, pos) ==
    LET S1 == IF S.parent[c] # None THEN RemoveFromParentS(S, c) ELSE S
    IN [S1 EXCEPT !.children[p] = InsertAt(@, IF pos = None THEN Len(@) ELSE pos, c),
                  !.parent[c] = p]

\* move_to_parent(new_parent, position)
MoveToParentS(S, n, p, pos) == AddChildS(RemoveFromParentS(S, n), p, n, pos)

\* set_content
SetContentS(S, n, c) == [S EXCEPT !.content[n] = Strip(c)]

RECURSIVE MoveAllS(_, _, _, _)
\* for child in self.children[:]: child.move_to_parent(target)
MoveAllS(S, cs, i, target) ==
    IF i > Len(cs) THEN S
    ELSE MoveAllS(MoveToParentS(S, cs[i], target, None), cs, i + 1, target)

\* merge_with_previous, for a node that has a previous sibling
MergeWithPreviousS(S, n) ==
    LET sib  == S.children[S.parent[n]]
        prev == sib[IndexOf(sib, n) - 1]
        S1 == IF S.content[prev] # <<>> /\ S.content[n] # <<>>
              THEN SetContentS(S, prev, S.content[prev] \o <<" ">> \o S.content[n])
              ELSE IF S.content[n] # <<>> THEN SetContentS(S, prev, S.content[n])
              ELSE S
        S2 == MoveAllS(S1, S1.children[n], 1, prev)
    IN RemoveFromParentS(S2, n)

\* ---------------------------------------------------------------- structural actions
Done(name, res) ==
    /\ op' = name
    /\ result' = res
    /\ UNCHANGED <<is_folded, flagVars, treeVars, selVars, undoVars, ioVars, ctlVars, docVars, hist>>

AddChild(p, c, pos) ==
    /\ Commit(AddChildS(Store, p, c, pos))
    /\ Done("struct", TRUE)

RemoveFromParent(n) ==
    /\ Commit(RemoveFromParentS(Store, n))
    /\ Done("struct", TRUE)

MoveToParent(n, p, pos) ==
    /\ Commit(MoveToParentS(Store, n, p, pos))
    /\ Done("struct", TRUE)

MoveUp(n) ==
    IF parent[n] # None /\ IndexOf(children[parent[n]], n) > 1
    THEN /\ LET i == IndexOf(children[parent[n]], n)
            IN Commit([Store EXCEPT !.children[parent[n]] = SwapAt(@, i, i - 1)])
         /\ Done("struct", TRUE)
    ELSE /\ UNCHANGED nodeVars
         /\ Done("struct", FALSE)

MoveDown(n) ==
    IF parent[n] # None /\ IndexOf(children[parent[n]], n) < Len(children[parent[n]])
    THEN /\ LET i == IndexOf(children[parent[n]], n)
            IN Commit([Store EXCEPT !.children[parent[n]] = SwapAt(@, i, i + 1)])
         /\ Done("struct", TRUE)
    ELSE /\ UNCHANGED nodeVars
         /\ Done("struct", FALSE)

\* indent, as a function of the store: the node goes under its previous sibling
CanIndentS(S, n) == S.parent[n] # None /\ IndexOf(S.children[S.parent[n]], n) > 1

IndentS(S, n) ==
    IF CanIndentS(S, n)
    THEN LET sib == S.children[S.parent[n]]
         IN MoveToParentS(S, n, sib[IndexOf(sib, n) - 1], None)
    ELSE S

\* outdent, as a function of the store: the node goes behind its parent
CanOutdentS(S, n) == S.parent[n] # None /\ S.parent[S.parent[n]] # None

\* variant of outdent that puts the node in front of its parent
OutdentBeforeS(S, n) ==
    IF CanOutdentS(S, n)
    THEN LET gp == S.parent[S.parent[n]]
         IN MoveToParentS(S, n, gp, IndexOf(S.children[gp], S.parent[n]) - 1)
    ELSE S

OutdentS(S, n) ==
    IF CanOutdentS(S, n)
    THEN LET gp == S.parent[S.parent[n]]
         IN MoveToParentS(S, n, gp, IndexOf(S.children[gp], S.parent[n]))
    ELSE S

Indent(n) ==
    IF CanIndentS(Store, n)
    THEN /\ Commit(IndentS(Store, n))
         /\ Done("struct", TRUE)
    ELSE /\ UNCHANGED nodeVars
         /\ Done("struct", FALSE)

Outdent(n) ==
    IF CanOutdentS(Store, n)
    THEN /\ Commit(OutdentS(Store, n))
         /\ Done("struct", TRUE)
    ELSE /\ UNCHANGED nodeVars
         /\ Done("struct", FALSE)

MergeWithPrevious(n) ==
    IF parent[n] # None /\ IndexOf(children[parent[n]], n) > 1
    THEN /\ \A m \in Live : Len(MergeWithPreviousS(Store, n).content[m]) <= MaxContentLen
         /\ Commit(MergeWithPreviousS(Store, n))
         /\ Done("struct", TRUE)
    ELSE /\ UNCHANGED nodeVars
         /\ Done("struct", FALSE)

\* split_content(position): the new sibling is node next_id
SplitContent(n, pos) ==
    /\ CanConstruct
    /\ LET new == next_id
           nd  == IF pos >= Len(content[n]) THEN NewNode(<<>>, "item")
                  ELSE NewNode(Strip(DropN(content[n], pos)), "item")
           S1  == IF pos >= Len(content[n]) THEN Store
                  ELSE SetContentS(Store, n, Strip(SubSeq(content[n], 1, pos)))
           S2  == [S1 EXCEPT !.content[new] = nd.content,
                             !.node_type[new] = nd.node_type,
                             !.todo_status[new] = nd.todo_status,
                             !.children[new] = <<>>,
                             !.parent[new] = None]
       IN IF parent[n] # None
          THEN Commit(AddChildS(S2, parent[n], new, IndexOf(children[parent[n]], n)))
          ELSE Commit(S2)
    /\ next_id' = next_id + 1
    /\ op' = "struct"
    /\ result' = TRUE
    /\ UNCHANGED <<is_folded, flagVars, root, node_index, selVars, undoVars, ioVars, ctlVars, docVars, hist>>

\* parent.add_child(LogLogNode(c)): the new node is node next_id
AddNewChild(p, c) ==
    /\ CanConstruct
    /\ LET new == next_id
           nd  == NewNode(c, "item")
           S1  == [Store EXCEPT !.content[new] = nd.content,
                                !.node_type[new] = nd.node_type,
                                !.todo_status[new] = nd.todo_status,
                                !.children[new] = <<>>,
                                !.parent[new] = None]
       IN Commit(AddChildS(S1, p, new, None))
    /\ next_id' = next_id + 1
    /\ op' = "struct"
    /\ result' = TRUE
    /\ UNCHANGED <<is_folded, flagVars, root, node_index, selVars, undoVars, ioVars, ctlVars, docVars, hist>>

\* load_content of a given text
LoadText(t) ==
    /\ LoadFromText(t)
    /\ op' = "load"
    /\ result' = TRUE
    /\ UNCHANGED <<ioVars, ctlVars, docVars, hist>>

\* ---------------------------------------------------------------- SpecStruct
\* "- a" with an empty child "- ", the empty and a whitespace-only text
StructTexts == { <<"-", " ", "a", "\n", "\t", "-", " ">>, <<>>, <<" ", "\n">> }
Positions == {None, 0}
SplitPositions == {0, 1}

InitStruct == InitTree /\ text = <<>>
NextStruct ==
    \/ \E t \in StructTexts : op = "init" /\ LoadText(t)
    \/ \E p \in Live, c \in Live, pos \in Positions : AddChild(p, c, pos)
    \/ \E p \in Live : AddNewChild(p, <<>>)
    \/ \E n \in Live : RemoveFromParent(n)
    \/ \E n \in Live, p \in Live : MoveToParent(n, p, None)
    \/ \E n \in Live : MoveUp(n)
    \/ \E n \in Live : MoveDown(n)
    \/ \E n \in Live : Indent(n)
    \/ \E n \in Live : Outdent(n)
    \/ \E n \in Live : MergeWithPrevious(n)
    \/ \E n \in Live, pos \in SplitPositions : SplitContent(n, pos)
SpecStruct == InitStruct /\ [][NextStruct]_vars

\* every node with a parent is in that parent's children list, so that the
\* list.remove and list.index calls of the operations never raise
LinksResolve ==
    \A n \in Live : parent[n] # None => n \in Range(children[parent[n]])

\* ---------------------------------------------------------------- traversals
RECURSIVE CollectKids(_, _)
RECURSIVE CollectNodes(_)
\* collect_nodes of get_all_nodes: depth-first, nodes of type root left out
CollectNodes(n) ==
    (IF node_type[n] # "root" THEN <<n>> ELSE <<>>) \o CollectKids(children[n], 1)

CollectKids(cs, i) ==
    IF i > Len(cs) THEN <<>> ELSE CollectNodes(cs[i]) \o CollectKids(cs, i + 1)

\* LogLogTree.get_all_nodes
GetAllNodes == CollectNodes(root)

RECURSIVE VisibleKids(_, _)
RECURSIVE CollectVisible(_, _)
\* collect_visible of get_visible_nodes
CollectVisible(n, include_self) ==
    (IF node_type[n] # "root" /\ include_self THEN <<n>> ELSE <<>>)
    \o (IF ~is_folded[n] THEN VisibleKids(children[n], 1) ELSE <<>>)

VisibleKids(cs, i) ==
    IF i > Len(cs) THEN <<>> ELSE CollectVisible(cs[i], TRUE) \o VisibleKids(cs, i + 1)

\* variant: folded nodes are descended into as well
GetVisibleIgnoringFold == GetAllNodes

\* LogLogTree.get_visible_nodes
GetVisibleNodes == CollectVisible(root, FALSE)

\* ---------------------------------------------------------------- SpecIndex
\* loads at any time, insertions of new nodes and removals
InitIndex == InitTree /\ text = <<>>
NextIndex ==
    \/ \E t \in StructTexts : LoadText(t)
    \/ \E p \in Live : AddNewChild(p, <<>>)
    \/ \E n \in Live : RemoveFromParent(n)
SpecIndex == InitIndex /\ [][NextIndex]_vars

\* ---------------------------------------------------------------- C9
\* C9: the id index holds exactly the ids of the nodes attached under the
\* root, so get_node_by_id finds a node exactly when it is in the tree.
C9_IndexMatchesTree == node_index = Range(GetAllNodes)

\* ---------------------------------------------------------------- selection
\* SelectionManager state together with the flags it mirrors on the nodes
Sel == [selected |-> selected_nodes, focused |-> focused_node, anchor |-> anchor_node,
        is_selected |-> is_selected, is_focused |-> is_focused]

CommitSel(L) ==
    /\ selected_nodes' = L.selected
    /\ focused_node' = L.focused
    /\ anchor_node' = L.anchor
    /\ is_selected' = L.is_selected
    /\ is_focused' = L.is_focused

\* add_to_selection
AddToSelectionL(L, n) ==
    IF n \notin L.selected
    THEN [L EXCEPT !.selected = @ \cup {n}, !.is_selected[n] = TRUE]
    ELSE L

\* remove_from_selection
RemoveFromSelectionL(L, n) ==
    IF n \in L.selected
    THEN [L EXCEPT !.selected = @ \ {n}, !.is_selected[n] = FALSE]
    ELSE L

\* variant of remove_from_selection that keeps the focused node selected
RemoveUnlessFocusedL(L, n) ==
    IF n \in L.selected /\ n # L.focused
    THEN [L EXCEPT !.selected = @ \ {n}, !.is_selected[n] = FALSE]
    ELSE L

\* toggle_selection
ToggleSelectionL(L, n) ==
    IF n \in L.selected THEN RemoveFromSelectionL(L, n) ELSE AddToSelectionL(L, n)

\* variant of set_focus that leaves the selected set alone
SetFocusNoAdd(L, n) ==
    LET L1 == IF L.focused # None THEN [L EXCEPT !.is_focused[L.focused] = FALSE] ELSE L
        L2 == [L1 EXCEPT !.focused = n]
    IN IF n # None THEN [L2 EXCEPT !.is_focused[n] = TRUE] ELSE L2

\* set_focus; n may be None
SetFocusL(L, n) ==
    LET L1 == IF L.focused # None THEN [L EXCEPT !.is_focused[L.focused] = FALSE] ELSE L
        L2 == [L1 EXCEPT !.focused = n]
    IN IF n # None THEN AddToSelectionL([L2 EXCEPT !.is_focused[n] = TRUE], n) ELSE L2

\* variant of the deselection loop that deselects nothing
RemoveNothingL(L) == L

\* every selected node deselected (the loops of select_single_node and
\* _handle_shift_click); the result does not depend on the order
RemoveAllL(L) ==
    [L EXCEPT !.selected = {},
              !.is_selected = [n \in Ids |-> IF n \in L.selected THEN FALSE ELSE @[n]]]

\* clear_selection: every selected node but the focused one deselected
ClearSelectionL(L) ==
    [L EXCEPT !.selected = @ \cap {L.focused},
              !.is_selected = [n \in Ids |->
                  IF n \in L.selected /\ n # L.focused THEN FALSE ELSE @[n]]]

RECURSIVE AddRunL(_, _, _, _)
\* for i in range(lo, hi + 1): add_to_selection(vis[i])
AddRunL(L, vis, lo, hi) ==
    IF lo > hi THEN L ELSE AddRunL(AddToSelectionL(L, vis[lo]), vis, lo + 1, hi)

Min2(a, b) == IF a <= b THEN a ELSE b
Max2(a, b) == IF a <= b THEN b ELSE a

\* variant: the two positions are not put in order
SelectRangeNoSwap(L, a, b) ==
    LET L1  == ClearSelectionL(L)
        vis == GetVisibleNodes
    IN IF a \in Range(vis) /\ b \in Range(vis)
       THEN [AddRunL(L1, vis, IndexOf(vis, a), IndexOf(vis, b)) EXCEPT !.anchor = a]
       ELSE AddToSelectionL(AddToSelectionL(L1, a), b)

\* select_range(start, end)
SelectRangeL(L, a, b) ==
    LET L1  == ClearSelectionL(L)
        vis == GetVisibleNodes
    IN IF a \in Range(vis) /\ b \in Range(vis)
       THEN [AddRunL(L1, vis, Min2(IndexOf(vis, a), IndexOf(vis, b)),
                              Max2(IndexOf(vis, a), IndexOf(vis, b)))
             EXCEPT !.anchor = a]
       ELSE AddToSelectionL(AddToSelectionL(L1, a), b)

\* the selection part of select_single_node
SelectSingleL(L, n) == AddToSelectionL(SetFocusL(RemoveAllL(L), n), n)

\* ---------------------------------------------------------------- selection actions
SelDone(name) ==
    /\ op' = name
    /\ result' = TRUE
    /\ UNCHANGED <<nodeVars, treeVars, undoVars, ioVars, ctlVars, docVars, hist>>

\* nodes of the current tree
TreeNodes == Range(GetAllNodes)
\* nodes that have a widget to click on
VisibleNodes == Range(GetVisibleNodes)

SetFocus(n) ==
    /\ CommitSel(SetFocusL(Sel, n))
    /\ UNCHANGED selection_anchor
    /\ SelDone("set_focus")

AddToSelection(n) ==
    /\ CommitSel(AddToSelectionL(Sel, n))
    /\ UNCHANGED selection_anchor
    /\ SelDone("add_to_selection")

RemoveFromSelection(n) ==
    /\ CommitSel(RemoveFromSelectionL(Sel, n))
    /\ UNCHANGED selection_anchor
    /\ SelDone("remove_from_selection")

ToggleSelection(n) ==
    /\ CommitSel(ToggleSelectionL(Sel, n))
    /\ UNCHANGED selection_anchor
    /\ SelDone("toggle_selection")

ClearSelection ==
    /\ CommitSel(ClearSelectionL(Sel))
    /\ UNCHANGED selection_anchor
    /\ SelDone("clear_selection")

SelectRange(a, b) ==
    /\ CommitSel(SelectRangeL(Sel, a, b))
    /\ UNCHANGED selection_anchor
    /\ SelDone("select_range")

\* TreeRenderer.select_single_node, the plain click
SelectSingleNode(n) ==
    /\ CommitSel(SelectSingleL(Sel, n))
    /\ selection_anchor' = n
    /\ SelDone("click")

\* on_click with the Ctrl key held
CtrlClick(n) ==
    /\ CommitSel(ToggleSelectionL(Sel, n))
    /\ selection_anchor' =
          IF selection_anchor = None /\ n \in ToggleSelectionL(Sel, n).selected
          THEN n ELSE selection_anchor
    /\ SelDone("ctrl_click")

\* the selection part of _handle_shift_click with the anchor a: nothing
\* changes unless both nodes are in the visible list
ShiftClickL(L, a, n) ==
    LET vis == GetVisibleNodes
    IN IF a \in Range(vis) /\ n \in Range(vis)
       THEN SetFocusL(AddRunL(RemoveAllL(L), vis,
                              Min2(IndexOf(vis, a), IndexOf(vis, n)),
                              Max2(IndexOf(vis, a), IndexOf(vis, n))), n)
       ELSE L

\* _handle_shift_click
ShiftClick(n) ==
    IF selection_anchor = None
    THEN SelectSingleNode(n)
    ELSE /\ CommitSel(ShiftClickL(Sel, selection_anchor, n))
         /\ UNCHANGED selection_anchor
         /\ SelDone("shift_click")

\* ---------------------------------------------------------------- folding
RECURSIVE CascadeKids(_, _, _)
RECURSIVE ToggleFoldF(_, _, _)
\* toggle_fold(recursive) on node n, as a function of the fold flags F
ToggleFoldF(F, n, recursive) ==
    LET F1 == [F EXCEPT ![n] = ~F[n]]
    IN IF recursive THEN CascadeKids(F1, n, 1) ELSE F1

\* the loop over n's children: each child takes n's value and is then
\* toggled recursively itself
CascadeKids(F, n, i) ==
    IF i > Len(children[n]) THEN F
    ELSE LET c == children[n][i]
         IN CascadeKids(ToggleFoldF([F EXCEPT ![c] = F[n]], c, TRUE), n, i + 1)

\* on_triangle_click: only a node with children toggles
TriangleClick(n) ==
    /\ IF children[n] # <<>>
       THEN is_folded' = ToggleFoldF(is_folded, n, FALSE)
       ELSE UNCHANGED is_folded
    /\ op' = "fold"
    /\ result' = TRUE
    /\ UNCHANGED <<content, node_type, todo_status, children, parent, flagVars,
                   treeVars, selVars, undoVars, ioVars, ctlVars, docVars, hist>>

\* ---------------------------------------------------------------- SpecView
\* "- a" with the child "[] b", then "- c"
ViewText == <<"-", " ", "a", "\n", "\t", "[", "]", " ", "b", "\n", "-", " ", "c">>

InitView == InitTree /\ text = ViewText
NextView ==
    \/ LoadContent
    \/ op # "init" /\ SaveToFile
    \/ op # "init" /\ \E n \in VisibleNodes : TriangleClick(n)
    \/ op # "init" /\ \E n \in TreeNodes \cup {None} : SetFocus(n)
    \/ op # "init" /\ \E n \in TreeNodes : AddToSelection(n)
    \/ op # "init" /\ \E n \in TreeNodes : RemoveFromSelection(n)
    \/ op # "init" /\ \E n \in TreeNodes : ToggleSelection(n)
    \/ op # "init" /\ ClearSelection
    \/ op # "init" /\ \E a \in TreeNodes, b \in TreeNodes : SelectRange(a, b)
    \/ op # "init" /\ \E n \in VisibleNodes : SelectSingleNode(n)
    \/ op # "init" /\ \E n \in VisibleNodes : CtrlClick(n)
    \/ op # "init" /\ \E n \in VisibleNodes : ShiftClick(n)
SpecView == InitView /\ [][NextView]_vars

\* ---------------------------------------------------------------- C2
\* C2: fold state never affects persisted content: the text a save writes
\* is the text serialize gives for the same tree with every node unfolded.
C2_SaveIgnoresFold ==
    op = "save" => saved = SerializeToLoglog(root, 0, [n \in Ids |-> FALSE])

\* ---------------------------------------------------------------- C6
\* C6: whenever a focused node is set, it is a member of the selected set.
C6_FocusedIsSelected ==
    focused_node # None => focused_node \in selected_nodes

\* ---------------------------------------------------------------- undo / redo log
\* TabViewport.max_undo_stack
max_undo_stack == 50

\* the two stacks of a viewport
Log == [undo |-> undo_stack, redo |-> redo_stack]

CommitLog(U) ==
    /\ undo_stack' = U.undo
    /\ redo_stack' = U.redo

EditAction(n, old, new) ==
    [type |-> "edit_node", node_id |-> n, old_content |-> old, new_content |-> new,
     old_status |-> "none", new_status |-> "none"]

StatusAction(n, old, new) ==
    [type |-> "todo_status", node_id |-> n, old_content |-> <<>>, new_content |-> <<>>,
     old_status |-> old, new_status |-> new]

\* an action of type add_node as record_action stores it: only the node id
AddNodeAction(n) ==
    [type |-> "add_node", node_id |-> n, old_content |-> <<>>, new_content |-> <<>>,
     old_status |-> "none", new_status |-> "none"]

\* variant of record_action that keeps the redo stack
RecordKeepRedo(U, a) ==
    LET u == Append(U.undo, a)
    IN [undo |-> IF Len(u) > max_undo_stack THEN Tail(u) ELSE u, redo |-> U.redo]

\* variant of record_action without the size limit
RecordNoLimit(U, a) == [undo |-> Append(U.undo, a), redo |-> <<>>]

\* record_action (the timestamp is not part of the model)
RecordActionU(U, a) ==
    LET u == Append(U.undo, a)
    IN [undo |-> IF Len(u) > max_undo_stack THEN Tail(u) ELSE u, redo |-> <<>>]

Front(s) == SubSeq(s, 1, Len(s) - 1)
Last(s) == s[Len(s)]

\* cycle_todo_status: the new type and status
CycleTodoStatus(ty, st) ==
    IF ty # "todo" THEN [node_type |-> "todo", todo_status |-> "pending"]
    ELSE IF st = "pending" THEN [node_type |-> "todo", todo_status |-> "progress"]
    ELSE IF st = "progress" THEN [node_type |-> "todo", todo_status |-> "complete"]
    ELSE [node_type |-> "todo", todo_status |-> "pending"]

\* set_todo_status: the new type and status
SetTodoStatus(st) ==
    IF st = "none" THEN [node_type |-> "item", todo_status |-> "none"]
    ELSE [node_type |-> "todo", todo_status |-> st]

\* finish_editing(save=True) for the widget of node n with entry text t
FinishEditing(n, t) ==
    LET new_content == Strip(t)
        p == ParseTodoStatus(new_content, node_type[n])
        U == IF new_content # content[n]
             THEN RecordActionU(Log, EditAction(n, content[n], new_content))
             ELSE Log
    IN
    /\ CommitLog(U)
    /\ content' = [content EXCEPT ![n] = p.content]
    /\ node_type' = [node_type EXCEPT ![n] = p.node_type]
    /\ todo_status' = [todo_status EXCEPT ![n] = p.todo_status]
    /\ hist' = IF new_content # content[n]
               THEN [phase |-> "applied", node |-> n, pre |-> Triple(n),
                     post |-> [content |-> p.content, node_type |-> p.node_type,
                               todo_status |-> p.todo_status]]
               ELSE hist
    /\ op' = "edit"
    /\ result' = TRUE
    /\ UNCHANGED <<children, parent, is_folded, flagVars, treeVars, selVars, ioVars, ctlVars, docVars>>

\* on_checkbox_click on the widget of node n
CheckboxClick(n) ==
    /\ IF todo_status[n] # "none"
       THEN LET c == CycleTodoStatus(node_type[n], todo_status[n]) IN
            /\ node_type' = [node_type EXCEPT ![n] = c.node_type]
            /\ todo_status' = [todo_status EXCEPT ![n] = c.todo_status]
            /\ CommitLog(RecordActionU(Log, StatusAction(n, todo_status[n], c.todo_status)))
            /\ hist' = [phase |-> "applied", node |-> n, pre |-> Triple(n),
                        post |-> [content |-> content[n], node_type |-> c.node_type,
                                  todo_status |-> c.todo_status]]
       ELSE UNCHANGED <<node_type, todo_status, undoVars, hist>>
    /\ op' = "checkbox"
    /\ result' = TRUE
    /\ UNCHANGED <<content, children, parent, is_folded, flagVars, treeVars, selVars, ioVars, ctlVars, docVars>>

RECURSIVE ToggleAllW(_, _, _)
\* the loop of toggle_todo_status over the nodes in the given order; W holds
\* the node types, the statuses, the log and the history
ToggleAllW(W, order, i) ==
    IF i > Len(order) THEN W
    ELSE LET n == order[i]
             c == CycleTodoStatus(W.node_type[n], W.todo_status[n])
         IN ToggleAllW(
              [node_type |-> [W.node_type EXCEPT ![n] = c.node_type],
               todo_status |-> [W.todo_status EXCEPT ![n] = c.todo_status],
               log |-> RecordActionU(W.log, StatusAction(n, W.todo_status[n], c.todo_status)),
               hist |-> [phase |-> "applied", node |-> n,
                         pre |-> [content |-> content[n], node_type |-> W.node_type[n],
                                  todo_status |-> W.todo_status[n]],
                         post |-> [content |-> content[n], node_type |-> c.node_type,
                                   todo_status |-> c.todo_status]]],
              order, i + 1)

\* the orders in which a set can be listed
Orders(S) == {f \in [1..Cardinality(S) -> S] : \A i, j \in DOMAIN f : f[i] = f[j] => i = j}

\* TreeRenderer.toggle_todo_status; the selected set is listed in any order
ToggleTodoStatus ==
    LET targets == IF selected_nodes = {} /\ focused_node # None
                   THEN {focused_node} ELSE selected_nodes
    IN \E order \in Orders(targets) :
       \E W \in {ToggleAllW([node_type |-> node_type, todo_status |-> todo_status,
                             log |-> Log, hist |-> hist], order, 1)} :
          /\ node_type' = W.node_type
          /\ todo_status' = W.todo_status
          /\ CommitLog(W.log)
          /\ hist' = W.hist
          /\ op' = "toggle_todo"
          /\ result' = TRUE
          /\ UNCHANGED <<content, children, parent, is_folded, flagVars, treeVars,
                         selVars, ioVars, ctlVars, docVars>>

\* handle_keyboard_event for the space key
KeySpace ==
    IF focused_node = None
    THEN /\ IF GetVisibleNodes # <<>>
            THEN CommitSel(SetFocusL(Sel, GetVisibleNodes[1]))
            ELSE UNCHANGED <<selected_nodes, focused_node, anchor_node, flagVars>>
         /\ op' = "key"
         /\ result' = TRUE
         /\ UNCHANGED <<nodeVars, treeVars, selection_anchor, undoVars, ioVars, ctlVars, docVars, hist>>
    ELSE ToggleTodoStatus

\* the node get_all_nodes yields for an id
Resolves(id) == id \in Range(GetAllNodes)

\* what undo_action does with the action it popped: restore the old value and
\* push the reverse action on the redo stack
UndoApply(a) ==
    IF a.type = "edit_node"
    THEN /\ content' = [content EXCEPT ![a.node_id] = a.old_content]
         /\ redo_stack' = Append(redo_stack,
                EditAction(a.node_id, content[a.node_id], a.old_content))
         /\ UNCHANGED <<node_type, todo_status>>
    ELSE /\ node_type' = [node_type EXCEPT ![a.node_id] = SetTodoStatus(a.old_status).node_type]
         /\ todo_status' = [todo_status EXCEPT ![a.node_id] = a.old_status]
         /\ redo_stack' = Append(redo_stack,
                StatusAction(a.node_id, todo_status[a.node_id], a.old_status))
         /\ UNCHANGED content

\* TabViewport.undo_action
UndoAction ==
    /\ IF undo_stack = <<>>
       THEN /\ result' = FALSE
            /\ UNCHANGED <<content, node_type, todo_status, undoVars>>
       ELSE IF Resolves(Last(undo_stack).node_id) /\ Last(undo_stack).type # "add_node"
       THEN /\ UndoApply(Last(undo_stack))
            /\ undo_stack' = Front(undo_stack)
            /\ result' = TRUE
       ELSE \* the popped action is appended to the undo stack again: its node
            \* is gone, or it is an add_node action, whose branch reads the
            \* attribute node.depth that LogLogNode does not have
            /\ result' = FALSE
            /\ UNCHANGED <<content, node_type, todo_status, undoVars>>
    /\ hist' = [hist EXCEPT !.phase = IF @ = "applied" THEN "undone" ELSE "none"]
    /\ op' = "undo"
    /\ UNCHANGED <<children, parent, is_folded, flagVars, treeVars, selVars, ioVars, ctlVars, docVars>>

\* what redo_action does with the action it popped
RedoApply(a) ==
    IF a.type = "edit_node"
    THEN /\ content' = [content EXCEPT ![a.node_id] = a.new_content]
         /\ undo_stack' = Append(undo_stack,
                EditAction(a.node_id, content[a.node_id], a.new_content))
         /\ UNCHANGED <<node_type, todo_status>>
    ELSE /\ node_type' = [node_type EXCEPT ![a.node_id] = SetTodoStatus(a.new_status).node_type]
         /\ todo_status' = [todo_status EXCEPT ![a.node_id] = a.new_status]
         /\ undo_stack' = Append(undo_stack,
                StatusAction(a.node_id, todo_status[a.node_id], a.new_status))
         /\ UNCHANGED content

\* TabViewport.redo_action
RedoAction ==
    /\ IF redo_stack = <<>>
       THEN /\ result' = FALSE
            /\ UNCHANGED <<content, node_type, todo_status, undoVars>>
       ELSE IF Resolves(Last(redo_stack).node_id)
               /\ Last(redo_stack).type \in {"edit_node", "todo_status"}
       THEN /\ RedoApply(Last(redo_stack))
            /\ redo_stack' = Front(redo_stack)
            /\ result' = TRUE
       ELSE \* the popped action is appended to the redo stack again
            /\ result' = FALSE
            /\ UNCHANGED <<content, node_type, todo_status, undoVars>>
    /\ hist' = [hist EXCEPT !.phase = IF @ = "undone" THEN "redone" ELSE "none"]
    /\ op' = "redo"
    /\ UNCHANGED <<children, parent, is_folded, flagVars, treeVars, selVars, ioVars, ctlVars, docVars>>

\* ---------------------------------------------------------------- SpecUndo
\* number of actions the log holds in the model
MaxLog == 2

\* "[] a" and "- c"
UndoText == <<"[", "]", " ", "a", "\n", "-", " ", "c">>
EditTexts == { <<"b">>, <<"[", "x", "]", " ", "a">> }

InitUndo == InitTree /\ text = UndoText
NextUndo ==
    \/ LoadContent
    \/ op # "init" /\ \E n \in VisibleNodes : SelectSingleNode(n)
    \/ op # "init" /\ Len(undo_stack) < MaxLog
                   /\ \E n \in VisibleNodes, t \in EditTexts : FinishEditing(n, t)
    \/ op # "init" /\ Len(undo_stack) < MaxLog /\ \E n \in VisibleNodes : CheckboxClick(n)
    \/ op # "init" /\ Len(undo_stack) < MaxLog /\ KeySpace
    \/ op # "init" /\ UndoAction
    \/ op # "init" /\ RedoAction
    \/ op # "init" /\ \E n \in TreeNodes : RemoveFromParent(n)
SpecUndo == InitUndo /\ [][NextUndo]_vars

\* ---------------------------------------------------------------- C3
\* C3: undo right after a recorded content edit or status change on a node
\* that is still in the tree returns true and leaves the node with the
\* content, type and status it had before the action.
C3_UndoRestores ==
    (op = "undo" /\ hist.phase = "undone" /\ hist.node \in TreeNodes)
        => (result = TRUE /\ Triple(hist.node) = hist.pre)

\* ---------------------------------------------------------------- C4
\* C4: an action, then undo, then redo, on a node still in the tree: redo
\* returns true and the node is in the state the action produced.
C4_RedoReproduces ==
    (op = "redo" /\ hist.phase = "redone" /\ hist.node \in TreeNodes)
        => (result = TRUE /\ Triple(hist.node) = hist.post)

\* ---------------------------------------------------------------- C5
\* C5: an undo (redo) whose popped action names a node that is no longer in
\* the tree returns false, changes no node, and drops the action: it leaves
\* its stack and does not enter the other one.
C5_StaleActionDropped ==
    [][ /\ (op' = "undo" /\ undo_stack # <<>> /\ ~Resolves(Last(undo_stack).node_id))
           => /\ result' = FALSE
              /\ nodeVars' = nodeVars
              /\ undo_stack' = Front(undo_stack)
              /\ redo_stack' = redo_stack
        /\ (op' = "redo" /\ redo_stack # <<>> /\ ~Resolves(Last(redo_stack).node_id))
           => /\ result' = FALSE
              /\ nodeVars' = nodeVars
              /\ redo_stack' = Front(redo_stack)
              /\ undo_stack' = undo_stack ]_vars

\* ---------------------------------------------------------------- tree views
RECURSIVE RowsOfKids(_, _, _)
RECURSIVE RowsOfNode(_, _)
\* depth-first rows (content, type, status, depth) of the subtree of n
RowsOfNode(n, d) ==
    <<[content |-> content[n], node_type |-> node_type[n],
       todo_status |-> todo_status[n], depth |-> d]>>
    \o RowsOfKids(children[n], d + 1, 1)

RowsOfKids(cs, d, i) ==
    IF i > Len(cs) THEN <<>>
    ELSE RowsOfNode(cs[i], d) \o RowsOfKids(cs, d, i + 1)

\* rows of the current tree, the root left out
TreeRows == RowsOfKids(children[root], 1, 1)

RECURSIVE ParsedDepth(_, _)
ParsedDepth(ns, i) == IF i = 0 THEN 0 ELSE 1 + ParsedDepth(ns, ns[i].par)

\* rows of a parse result; creation order is depth-first order
ParsedRows(ns) ==
    [i \in 1..Len(ns) |->
        [content |-> ns[i].content, node_type |-> ns[i].node_type,
         todo_status |-> ns[i].todo_status, depth |-> ParsedDepth(ns, i)]]

\* ---------------------------------------------------------------- C1
\* C1: parsing a text, serializing the tree and parsing the output again
\* gives the same depth-first rows (content, type, status, depth) as parsing
\* the text once.
C1_RoundTrip ==
    op = "reload" => TreeRows = ParsedRows(ParseText(text))

C1_Witness ==
    /\ op = "reload"
    /\ Len(TreeRows) = 3
    /\ \E i, j \in 1..3 : /\ TreeRows[i].depth = 2
                           /\ TreeRows[i].node_type = "todo"
                           /\ TreeRows[j].todo_status = "progress"

\* ---------------------------------------------------------------- C10
\* index of the nearest earlier line of a lower level, 0 (the root) if none
NearestShallower(ls, i) ==
    LET c == {j \in 1..(i - 1) : LineLevel(ls[j]) < LineLevel(ls[i])}
    IN IF c = {} THEN 0 ELSE CHOOSE j \in c : \A k \in c : k <= j

\* C10: the node of every non-blank line is attached to the node of the
\* nearest preceding non-blank line of a lower indent level, or to the root.
C10_ParentIsNearestShallower ==
    op = "load" =>
        LET ls == NonBlank(Split(text)) IN
        \A i \in 1..Len(ls) : parent[root + i] = root + NearestShallower(ls, i)

\* ---------------------------------------------------------------- C7
RECURSIVE Climb(_, _)
\* the node reached from n by following parent links k times (None once a
\* node without parent has been passed)
Climb(n, k) ==
    IF k = 0 \/ n = None THEN n ELSE Climb(parent[n], k - 1)

\* C7: the tree is acyclic: following parent links from any node ends at a
\* node without a parent, so no node is its own ancestor.
C7_Acyclic ==
    \A n \in Live : \A k \in 1..MaxIds : Climb(n, k) # n

\* ---------------------------------------------------------------- C8
\* c is in the children list of p exactly when the parent of c is p
LinksAgree ==
    \A p \in Live, c \in Live : (c \in Range(children[p])) <=> (parent[c] = p)

\* no node occurs twice in one children list
NoDuplicateChild ==
    \A p \in Live : \A i, j \in 1..Len(children[p]) :
        children[p][i] = children[p][j] => i = j

\* C8: parent links and children lists agree, no node is listed twice or
\* under two parents, and the root has no parent.
C8_LinksConsistent ==
    /\ LinksAgree
    /\ NoDuplicateChild
    /\ parent[root] = None

\* ---------------------------------------------------------------- C11
\* the marker a line's text starts with, as <<marker, status>>, or <<>>
MarkerOf(body) ==
    IF StartsWith(body, <<"[", "]">>) THEN << <<"[", "]">>, "pending" >>
    ELSE IF StartsWith(body, <<"[", " ", "]">>) THEN << <<"[", " ", "]">>, "pending" >>
    ELSE IF StartsWith(body, <<"[", "x", "]">>) THEN << <<"[", "x", "]">>, "complete" >>
    ELSE IF StartsWith(body, <<"[", "-", "]">>) THEN << <<"[", "-", "]">>, "progress" >>
    ELSE IF StartsWith(body, <<"[", "?", "]">>) THEN << <<"[", "?", "]">>, "unknown" >>
    ELSE <<>>

\* C11: a loaded line whose text starts with [] or [ ] is a TODO node with
\* status pending, [x] complete, [-] in progress, [?] unknown, and the
\* marker is not part of the node's content.
C11_MarkersParsed ==
    op = "load" =>
        LET ls == NonBlank(Split(text)) IN
        \A i \in 1..Len(ls) :
            LET body == LStrip(ls[i])
                m == MarkerOf(body)
            IN m # <<>> =>
                /\ node_type[root + i] = "todo"
                /\ todo_status[root + i] = m[2]
                /\ content[root + i] = Strip(DropN(body, Len(m[1])))

\* ---------------------------------------------------------------- fold commands
RECURSIVE FoldRecursive(_, _, _, _)
RECURSIVE FoldRecursiveKids(_, _, _, _, _)
\* fold_recursive of TreeRenderer.fold_to_level, as a function of the flags F
FoldRecursive(F, node, current_level, max_level) ==
    IF current_level >= max_level THEN [F EXCEPT ![node] = TRUE]
    ELSE FoldRecursiveKids([F EXCEPT ![node] = FALSE], node, 1, current_level, max_level)

FoldRecursiveKids(F, node, i, current_level, max_level) ==
    IF i > Len(children[node]) THEN F
    ELSE FoldRecursiveKids(FoldRecursive(F, children[node][i], current_level + 1, max_level),
                           node, i + 1, current_level, max_level)

\* variant: the root counted as level 1
FoldToLevelFromOne(F, max_level) == FoldRecursive(F, root, 1, max_level)

FoldToLevelF(F, max_level) == FoldRecursive(F, root, 0, max_level)

RECURSIVE PathNodes(_)
\* focus_mode: the focused node and its ancestors below the root
PathNodes(n) ==
    IF n = None \/ node_type[n] = "root" THEN {} ELSE {n} \cup PathNodes(parent[n])

\* variant: the path to the focused node gets no exception
FoldWithFocusNoPath(F, node, current_level, max_level, path_nodes) ==
    FoldRecursive(F, node, current_level, max_level)

RECURSIVE FoldWithFocus(_, _, _, _, _)
RECURSIVE FoldWithFocusKids(_, _, _, _, _, _)
\* fold_with_focus of TreeRenderer.focus_mode
FoldWithFocus(F, node, current_level, max_level, path_nodes) ==
    IF current_level >= max_level /\ node \notin path_nodes THEN [F EXCEPT ![node] = TRUE]
    ELSE FoldWithFocusKids([F EXCEPT ![node] = FALSE], node, 1, current_level,
                           max_level, path_nodes)

FoldWithFocusKids(F, node, i, current_level, max_level, path_nodes) ==
    IF i > Len(children[node]) THEN F
    ELSE FoldWithFocusKids(
            FoldWithFocus(F, children[node][i], current_level + 1, max_level, path_nodes),
            node, i + 1, current_level, max_level, path_nodes)

FocusModeF(F, max_level) ==
    IF focused_node = None THEN FoldToLevelF(F, max_level)
    ELSE FoldWithFocus(F, root, 0, max_level, PathNodes(focused_node))

RECURSIVE Ancestry(_)
\* the node and all its ancestors, the root included
Ancestry(n) == IF n = None THEN {} ELSE {n} \cup Ancestry(parent[n])

RECURSIVE FoldOthers(_, _, _)
RECURSIVE FoldOthersKids(_, _, _, _)
\* fold_others of LogLogTree.focus_mode(node)
FoldOthers(F, check_node, node) ==
    IF check_node = node THEN F
    ELSE FoldOthersKids(IF check_node \notin Ancestry(node)
                        THEN [F EXCEPT ![check_node] = TRUE] ELSE F,
                        check_node, 1, node)

FoldOthersKids(F, check_node, i, node) ==
    IF i > Len(children[check_node]) THEN F
    ELSE FoldOthersKids(FoldOthers(F, children[check_node][i], node), check_node, i + 1, node)

\* LogLogTree.focus_mode(node)
TreeFocusModeF(F, node) ==
    FoldOthersKids([n \in Ids |-> IF n \in PathNodes(node) THEN FALSE ELSE F[n]], root, 1, node)

FoldDone(name, arg) ==
    /\ op' = name
    /\ result' = TRUE
    /\ last_arg' = arg
    /\ UNCHANGED <<content, node_type, todo_status, children, parent, flagVars,
                   treeVars, selVars, undoVars, text, saved, ctlVars, docVars, hist>>

\* TreeRenderer.fold_to_level
FoldToLevel(max_level) ==
    /\ is_folded' = FoldToLevelF(is_folded, max_level)
    /\ FoldDone("fold_to_level", max_level)

\* TreeRenderer.focus_mode
FocusMode(max_level) ==
    /\ is_folded' = FocusModeF(is_folded, max_level)
    /\ FoldDone("focus_mode", max_level)

\* LogLogTree.focus_mode
TreeFocusMode(node) ==
    /\ is_folded' = TreeFocusModeF(is_folded, node)
    /\ FoldDone("tree_focus_mode", node)

\* TreeRenderer.unfold_all
UnfoldAll ==
    /\ is_folded' = [n \in Ids |-> IF n \in TreeNodes THEN FALSE ELSE is_folded[n]]
    /\ FoldDone("unfold_all", 0)

\* LogLogNode.toggle_fold(recursive=True)
ToggleFoldRecursive(n) ==
    /\ is_folded' = ToggleFoldF(is_folded, n, TRUE)
    /\ FoldDone("toggle_fold_recursive", n)

\* ---------------------------------------------------------------- SpecFold
\* number of lines of the folded documents, and the levels Ctrl+1.. are tried with
MaxFoldLines == 3
MaxLevel == 3

\* a line "- a" behind the given number of tabs
FoldLine(level) == [i \in 1..level |-> "\t"] \o <<"-", " ", "a">>
\* outlines: the first line at level 0, each line at most one level deeper
\* than the line before
FoldOutlines ==
    { lv \in UNION { [1..k -> 0..(MaxFoldLines - 1)] : k \in 1..MaxFoldLines } :
        lv[1] = 0 /\ \A i \in 2..Len(lv) : lv[i] <= lv[i - 1] + 1 }
FoldTexts == { Join([i \in 1..Len(lv) |-> FoldLine(lv[i])]) : lv \in FoldOutlines }
Levels == 1..MaxLevel

InitFold == InitTree /\ text \in FoldTexts
NextFold ==
    \/ LoadContent
    \/ op # "init" /\ \E n \in VisibleNodes : SelectSingleNode(n)
    \/ op # "init" /\ \E n \in VisibleNodes : TriangleClick(n)
    \/ op # "init" /\ \E n \in TreeNodes : ToggleFoldRecursive(n)
    \/ op # "init" /\ \E L \in Levels : FoldToLevel(L)
    \/ op # "init" /\ \E L \in Levels : FocusMode(L)
    \/ op # "init" /\ \E n \in TreeNodes : TreeFocusMode(n)
    \/ op # "init" /\ UnfoldAll
SpecFold == InitFold /\ [][NextFold]_vars

RECURSIVE Depth(_)
\* depth of a node of the tree: the root has depth 0, its children depth 1
Depth(n) == IF n = root \/ parent[n] = None THEN 0 ELSE 1 + Depth(parent[n])

\* ---------------------------------------------------------------- C12
\* C12: after fold_to_level(L) every node of depth at least L is folded and
\* every node of depth less than L is unfolded.
C12_FoldToLevelAbsolute ==
    op = "fold_to_level" =>
        \A n \in TreeNodes \cup {root} : is_folded[n] = (Depth(n) >= last_arg)

\* ---------------------------------------------------------------- C13
\* C13: after fold_to_level(L) the visible nodes are exactly the nodes of
\* depth less than L.
C13_VisibleBelowLevel ==
    op = "fold_to_level" =>
        VisibleNodes = {n \in TreeNodes : Depth(n) < last_arg}

\* C13 as the code has it: after fold_to_level(L) the visible nodes are
\* exactly the nodes of depth at most L; the nodes of depth L are listed,
\* folded, and nothing below them is.
C13_VisibleUpToLevel ==
    op = "fold_to_level" =>
        VisibleNodes = {n \in TreeNodes : Depth(n) <= last_arg}

\* a fold_to_level(1) that hid a node which was visible or not before
C13_Witness ==
    /\ op = "fold_to_level"
    /\ last_arg = 1
    /\ \E n \in TreeNodes : Depth(n) = 3 /\ ~is_folded[n]
    /\ \E n \in TreeNodes : Depth(n) = 1 /\ is_folded[n] /\ children[n] # <<>>

\* ---------------------------------------------------------------- C14
\* the nodes below n
Descendants(n) == {d \in TreeNodes : d # n /\ n \in Ancestry(d)}

\* C14: toggle_fold(recursive=True) on a node leaves every descendant of the
\* node with the fold flag the node itself ends with.
C14_RecursiveToggleCascades ==
    op = "toggle_fold_recursive" =>
        \A d \in Descendants(last_arg) : is_folded[d] = is_folded[last_arg]

\* ---------------------------------------------------------------- C15
\* n and all its ancestors are unfolded and n is listed as visible
PathOpen(n) == (\A a \in Ancestry(n) : ~is_folded[a]) /\ n \in VisibleNodes

RECURSIVE PathIdx(_)
\* the child positions leading from the root to n
PathIdx(n) ==
    IF n = root \/ parent[n] = None THEN <<>>
    ELSE Append(PathIdx(parent[n]), IndexOf(children[parent[n]], n))

RECURSIVE PreOrderBefore(_, _)
\* p comes strictly before q in depth-first pre-order
PreOrderBefore(p, q) ==
    IF p = <<>> THEN q # <<>>
    ELSE IF q = <<>> THEN FALSE
    ELSE IF Head(p) = Head(q) THEN PreOrderBefore(Tail(p), Tail(q))
    ELSE Head(p) < Head(q)

\* C16: get_visible_nodes lists, in depth-first pre-order, exactly the
\* non-root nodes none of whose proper ancestors is folded.
C16_VisibleNodes ==
    op # "init" =>
        LET v == GetVisibleNodes IN
        /\ Range(v) = {n \in TreeNodes : \A a \in Ancestry(n) \ {n} : ~is_folded[a]}
        /\ \A i, j \in 1..Len(v) : i < j => PreOrderBefore(PathIdx(v[i]), PathIdx(v[j]))

\* a folded node is listed, its children are not, and a later sibling is
C16_Witness ==
    /\ op = "fold"
    /\ \E n \in VisibleNodes :
          /\ is_folded[n] /\ children[n] # <<>>
          /\ \A c \in Range(children[n]) : c \notin VisibleNodes
          /\ \E m \in VisibleNodes : PreOrderBefore(PathIdx(n), PathIdx(m))

\* ---------------------------------------------------------------- navigation lookups
\* LogLogTree.get_next_visible_node
GetNextVisibleNode(current) ==
    LET vis == GetVisibleNodes
    IN IF current \in Range(vis) /\ IndexOf(vis, current) < Len(vis)
       THEN vis[IndexOf(vis, current) + 1] ELSE None

\* LogLogTree.get_previous_visible_node
GetPreviousVisibleNode(current) ==
    LET vis == GetVisibleNodes
    IN IF current \in Range(vis) /\ IndexOf(vis, current) > 1
       THEN vis[IndexOf(vis, current) - 1] ELSE None

\* ---------------------------------------------------------------- C17
\* the visible nodes from a to b, whichever comes first
Between(a, b) ==
    LET vis == GetVisibleNodes
    IN { vis[i] : i \in Min2(IndexOf(vis, a), IndexOf(vis, b))
                        .. Max2(IndexOf(vis, a), IndexOf(vis, b)) }

\* C17: select_range(a, b) on visible nodes leaves exactly the visible nodes
\* between a and b selected, whatever was selected before.
C17_RangeExact ==
    op # "init" =>
        \A a, b \in VisibleNodes : SelectRangeL(Sel, a, b).selected = Between(a, b)

\* ---------------------------------------------------------------- C18
\* C18: from the same fold state and selection, select_range(a, b) and
\* select_range(b, a) leave the same selected set (and the same flags).
C18_RangeSymmetric ==
    op # "init" =>
        \A a, b \in VisibleNodes :
            /\ SelectRangeL(Sel, a, b).selected = SelectRangeL(Sel, b, a).selected
            /\ SelectRangeL(Sel, a, b).is_selected = SelectRangeL(Sel, b, a).is_selected

\* a select_range whose start came after its end in the visible order: a
\* node before the start is selected without being the focused one
C18_Witness ==
    /\ op = "select_range"
    /\ anchor_node \in VisibleNodes
    /\ \E m \in selected_nodes \cap VisibleNodes :
          /\ m # focused_node
          /\ IndexOf(GetVisibleNodes, m) < IndexOf(GetVisibleNodes, anchor_node)

\* ---------------------------------------------------------------- C19
\* C19: select_range with a node that is not visible selects no node, and
\* the next/previous-visible lookups of such a node return nothing.
C19_HiddenIsNoOp ==
    op # "init" =>
        /\ \A a, b \in TreeNodes :
              (a \notin VisibleNodes \/ b \notin VisibleNodes)
                  => SelectRangeL(Sel, a, b).selected \subseteq selected_nodes
        /\ \A n \in TreeNodes \ VisibleNodes :
              GetNextVisibleNode(n) = None /\ GetPreviousVisibleNode(n) = None

\* ---------------------------------------------------------------- arrow keys (TreeRenderer)
\* move_focus_up / move_focus_down: the neighbour of the focused node in the
\* visible order is selected alone; nothing happens without one
MoveFocus(step) ==
    LET vis == GetVisibleNodes
        i == IF focused_node \in Range(vis) THEN IndexOf(vis, focused_node) + step ELSE 0
    IN IF i \in 1..Len(vis)
       THEN /\ CommitSel(SelectSingleL(Sel, vis[i]))
            /\ selection_anchor' = vis[i]
            /\ SelDone("move_focus")
       ELSE /\ UNCHANGED <<selVars, flagVars>>
            /\ SelDone("key")

MoveFocusUp == MoveFocus(0 - 1)
MoveFocusDown == MoveFocus(1)

\* ---------------------------------------------------------------- KeyboardController
\* InteractionState as a record
Ctl == [selected |-> state_selected_nodes, current |-> current_node,
        anchor |-> multi_select_anchor]

CommitCtl(K) ==
    /\ state_selected_nodes' = K.selected
    /\ current_node' = K.current
    /\ multi_select_anchor' = K.anchor

CtlDone(name) ==
    /\ op' = name
    /\ result' = TRUE
    /\ UNCHANGED <<nodeVars, flagVars, treeVars, selVars, undoVars, ioVars, docVars, hist>>

\* _select_node(node) without extend_selection
SelectNodeK(K, node) == [K EXCEPT !.selected = <<node>>, !.current = node]

\* _get_current_node_index, counted from 1; 0 when there is none
CurrentNodeIndex(K) ==
    IF K.current # None /\ K.current \in Range(GetVisibleNodes)
    THEN IndexOf(GetVisibleNodes, K.current) ELSE 0

\* _select_range_to_node(target_node)
SelectRangeToNodeK(K, target_node) ==
    LET vis == GetVisibleNodes
    IN IF K.anchor = None THEN K
       ELSE IF K.anchor \in Range(vis) /\ target_node \in Range(vis)
       THEN [K EXCEPT !.selected =
                SubSeq(vis, Min2(IndexOf(vis, K.anchor), IndexOf(vis, target_node)),
                            Max2(IndexOf(vis, K.anchor), IndexOf(vis, target_node)))]
       ELSE K

\* _on_key_up
CtlKeyUp ==
    IF CurrentNodeIndex(Ctl) > 1
    THEN /\ CommitCtl(SelectNodeK(Ctl, GetVisibleNodes[CurrentNodeIndex(Ctl) - 1]))
         /\ CtlDone("ctl_select")
    ELSE UNCHANGED ctlVars /\ CtlDone("ctl_key")

\* _on_key_down
CtlKeyDown ==
    IF CurrentNodeIndex(Ctl) < Len(GetVisibleNodes)
    THEN /\ CommitCtl(SelectNodeK(Ctl, GetVisibleNodes[CurrentNodeIndex(Ctl) + 1]))
         /\ CtlDone("ctl_select")
    ELSE UNCHANGED ctlVars /\ CtlDone("ctl_key")

\* the anchor is set to the current node if there is none, the range to the
\* target is selected and the target becomes the current node
ExtendToK(K, target_node) ==
    [SelectRangeToNodeK([K EXCEPT !.anchor = IF @ = None THEN K.current ELSE @],
                        target_node)
     EXCEPT !.current = target_node]

\* _on_shift_up
CtlShiftUp ==
    /\ IF CurrentNodeIndex(Ctl) > 1
       THEN CommitCtl(ExtendToK(Ctl, GetVisibleNodes[CurrentNodeIndex(Ctl) - 1]))
       ELSE UNCHANGED ctlVars
    /\ CtlDone("ctl_shift")

\* _on_shift_down
CtlShiftDown ==
    /\ IF CurrentNodeIndex(Ctl) < Len(GetVisibleNodes)
       THEN CommitCtl(ExtendToK(Ctl, GetVisibleNodes[CurrentNodeIndex(Ctl) + 1]))
       ELSE UNCHANGED ctlVars
    /\ CtlDone("ctl_shift")

\* MouseController._on_left_click on the text of a node
CtlLeftClick(node) ==
    /\ CommitCtl(SelectNodeK(Ctl, node))
    /\ CtlDone("ctl_select")

\* MouseController._on_shift_click
CtlShiftClick(node) ==
    /\ CommitCtl(ExtendToK(Ctl, node))
    /\ CtlDone("ctl_shift")

\* ---------------------------------------------------------------- SpecNav
InitNav == InitTree /\ text = ViewText
NextNav ==
    \/ LoadContent
    \/ op # "init" /\ \E n \in VisibleNodes : SelectSingleNode(n)
    \/ op # "init" /\ \E n \in VisibleNodes : ShiftClick(n)
    \/ op # "init" /\ MoveFocusUp
    \/ op # "init" /\ MoveFocusDown
    \/ op # "init" /\ \E n \in VisibleNodes : CtlLeftClick(n)
    \/ op # "init" /\ \E n \in VisibleNodes : CtlShiftClick(n)
    \/ op # "init" /\ CtlKeyUp
    \/ op # "init" /\ CtlKeyDown
    \/ op # "init" /\ CtlShiftUp
    \/ op # "init" /\ CtlShiftDown
SpecNav == InitNav /\ [][NextNav]_vars

\* ---------------------------------------------------------------- C20
\* the node the controller's next shift selection starts from
NextShiftAnchor == IF multi_select_anchor # None THEN multi_select_anchor ELSE current_node

\* C20: after a plain click on n or a plain arrow-key move that lands on n,
\* the selection is exactly n, n is the focused/current node, and n is the
\* anchor of the next shift selection; in the renderer and in the controller.
C20_SingleSelect ==
    /\ op \in {"click", "move_focus"} =>
          /\ focused_node # None
          /\ selected_nodes = {focused_node}
          /\ selection_anchor = focused_node
    /\ op = "ctl_select" =>
          /\ current_node # None
          /\ state_selected_nodes = <<current_node>>
          /\ NextShiftAnchor = current_node

\* ---------------------------------------------------------------- Shift+arrow (TreeRenderer)
\* _extend_selection_to_node(target): the target is toggled, then focused
ExtendSelectionToNodeL(L, n) == SetFocusL(ToggleSelectionL(L, n), n)

\* extend_selection_up / extend_selection_down: the visible neighbour of the
\* focused node is the target; nothing happens without a focused node that
\* is visible, or at the end of the list
ExtendSelection(step, name) ==
    LET vis == GetVisibleNodes
        i == IF focused_node \in Range(vis) THEN IndexOf(vis, focused_node) + step ELSE 0
    IN IF i \in 1..Len(vis)
       THEN /\ CommitSel(ExtendSelectionToNodeL(Sel, vis[i]))
            /\ UNCHANGED selection_anchor
            /\ SelDone(name)
       ELSE /\ UNCHANGED <<selVars, flagVars>>
            /\ SelDone("key")

ExtendSelectionUp == ExtendSelection(0 - 1, "extend_up")
ExtendSelectionDown == ExtendSelection(1, "extend_down")

\* ---------------------------------------------------------------- click in the Text widget
\* on_text_click on the content of a line: every node's is_selected flag is
\* cleared and the clicked node's flag set; the selection manager is not
\* called (TreeRenderer has no selection_manager attribute)
TextClick(n) ==
    /\ is_selected' = [m \in Ids |-> IF m = n THEN TRUE
                                     ELSE IF m \in TreeNodes THEN FALSE
                                     ELSE is_selected[m]]
    /\ UNCHANGED <<is_focused, selVars>>
    /\ SelDone("text_click")

\* ---------------------------------------------------------------- SpecSel
InitSel == InitTree /\ text = ViewText
NextSel ==
    \/ LoadContent
    \/ op # "init" /\ \E n \in VisibleNodes : TriangleClick(n)
    \/ op # "init" /\ \E n \in TreeNodes \cup {None} : SetFocus(n)
    \/ op # "init" /\ \E n \in VisibleNodes : SelectSingleNode(n)
    \/ op # "init" /\ \E n \in VisibleNodes : CtrlClick(n)
    \/ op # "init" /\ \E n \in VisibleNodes : ShiftClick(n)
    \/ op # "init" /\ MoveFocusUp
    \/ op # "init" /\ MoveFocusDown
    \/ op # "init" /\ ExtendSelectionUp
    \/ op # "init" /\ ExtendSelectionDown
    \/ op # "init" /\ \E n \in VisibleNodes : TextClick(n)
SpecSel == InitSel /\ [][NextSel]_vars

\* ---------------------------------------------------------------- C21
\* C21: a step that moves the focus to a node leaves that node in the
\* selected set
C21_NewFocusSelected ==
    [][(focused_node' # focused_node /\ focused_node' # None)
          => focused_node' \in selected_nodes']_vars

\* Shift+arrow has moved the focus onto a node that was selected before
C21_Witness ==
    /\ op \in {"extend_up", "extend_down"}
    /\ focused_node \in selected_nodes
    /\ Cardinality(selected_nodes) >= 2

C23_ShiftClickRange ==
    /\ [](selection_anchor \in VisibleNodes =>
             \A c \in VisibleNodes :
                 /\ ShiftClickL(Sel, selection_anchor, c).focused = c
                 /\ ShiftClickL(Sel, selection_anchor, c).selected
                        = Between(selection_anchor, c))
    /\ [][(op' = "shift_click" /\ selection_anchor \in VisibleNodes)
             => /\ selection_anchor' = selection_anchor
                /\ selected_nodes' = Between(selection_anchor, focused_node')]_vars

\* a shift-click has shrunk the run: one node is visible outside it
C23_Witness ==
    /\ op = "shift_click"
    /\ selection_anchor \in VisibleNodes
    /\ focused_node \in VisibleNodes \ {selection_anchor}
    /\ selected_nodes = Between(selection_anchor, focused_node)
    /\ VisibleNodes \ selected_nodes # {}

\* ---------------------------------------------------------------- C24
\* the state a plain click followed by Shift+Down presses leaves: the run of
\* visible nodes from the anchor down to the focused node is selected
DownRun ==
    /\ op = "extend_down"
    /\ selection_anchor \in VisibleNodes
    /\ focused_node \in VisibleNodes
    /\ IndexOf(GetVisibleNodes, selection_anchor) < IndexOf(GetVisibleNodes, focused_node)
    /\ selected_nodes = Between(selection_anchor, focused_node)

\* C24: Shift+Up after such a run deselects the node the last Shift+Down
\* added, so one node fewer is selected
C24_ShiftUpShrinks ==
    [][(DownRun /\ op' = "extend_up")
          => /\ focused_node \notin selected_nodes'
             /\ Cardinality(selected_nodes') = Cardinality(selected_nodes) - 1]_vars

\* ---------------------------------------------------------------- SpecLog
\* one item edited back and forth until the log is full, then edited, undone
\* and redone around the limit max_undo_stack
LogText == <<"-", " ", "c">>
LogContents == { <<"b">>, <<"c">> }

\* undo and redo are explored on a stack within MaxLog of the limit
NearLimit == Len(undo_stack) >= max_undo_stack - MaxLog
\* edits on a full stack are explored while the oldest action is still the
\* first edit of the loaded item, so the stack overflows once
FirstEditKept ==
    IF Len(undo_stack) < max_undo_stack THEN TRUE
    ELSE undo_stack[1].old_content = <<"c">>

InitLog == InitTree /\ text = LogText
NextLog ==
    \/ LoadContent
    \/ op # "init" /\ FirstEditKept
                   /\ \E n \in VisibleNodes, t \in LogContents : FinishEditing(n, t)
    \/ op # "init" /\ NearLimit /\ UndoAction
    \/ op # "init" /\ NearLimit /\ RedoAction
    \/ op # "init" /\ \E n \in TreeNodes : RemoveFromParent(n)
SpecLog == InitLog /\ [][NextLog]_vars

\* the edit actions finish_editing can record on the current tree
LogActions == { EditAction(n, old, new) :
                  n \in TreeNodes, old \in LogContents, new \in LogContents }

\* ---------------------------------------------------------------- C25
\* C25: record_action leaves the new action on top of the undo stack and the
\* redo stack empty; with an empty redo stack redo returns false, and the
\* redo stack only becomes non-empty by an undo that returns true
C25_RecordClearsRedo ==
    /\ [](\A a \in LogActions :
            /\ RecordActionU(Log, a).redo = <<>>
            /\ Last(RecordActionU(Log, a).undo) = a)
    /\ [][(op' = "edit" /\ content' # content)
             => /\ redo_stack' = <<>>
                /\ Last(undo_stack').node_id = hist'.node
                /\ Last(undo_stack').old_content = hist'.pre.content
                /\ Last(undo_stack').new_content = hist'.post.content]_vars
    /\ [][(redo_stack = <<>> /\ op' = "redo")
             => (result' = FALSE /\ redo_stack' = <<>>)]_vars
    /\ [][(redo_stack = <<>> /\ redo_stack' # <<>>)
             => (op' = "undo" /\ result' = TRUE)]_vars

\* an edit has been recorded on top of an earlier one
C25_Witness ==
    /\ op = "edit"
    /\ hist.phase = "applied"
    /\ redo_stack = <<>>
    /\ Len(undo_stack) >= 2
    /\ Last(undo_stack).new_content = content[hist.node]

\* ---------------------------------------------------------------- C26
\* C26: neither stack ever holds more than max_undo_stack actions, and
\* recording on a full undo stack drops its oldest action and keeps the new one
C26_StacksCapped ==
    /\ Len(undo_stack) <= max_undo_stack
    /\ Len(redo_stack) <= max_undo_stack
    /\ \A a \in LogActions :
          /\ Len(RecordActionU(Log, a).undo) <= max_undo_stack
          /\ Len(undo_stack) = max_undo_stack
                => RecordActionU(Log, a).undo = Append(Tail(undo_stack), a)

\* the undo stack is full and its oldest action is no longer the first edit
\* of the loaded item
C26_Witness ==
    /\ Len(undo_stack) = max_undo_stack
    /\ undo_stack[1].old_content # <<"c">>

\* ---------------------------------------------------------------- SpecAdd
\* record_action('add_node', node_id=n.id) for a node of the tree
RecordAddNode(n) ==
    /\ CommitLog(RecordActionU(Log, AddNodeAction(n)))
    /\ hist' = [hist EXCEPT !.phase = "none"]
    /\ op' = "record"
    /\ result' = TRUE
    /\ UNCHANGED <<nodeVars, flagVars, treeVars, selVars, ioVars, ctlVars, docVars>>

InitAdd == InitTree /\ text = UndoText
NextAdd ==
    \/ LoadContent
    \/ op # "init" /\ \E p \in TreeNodes \cup {root} : AddNewChild(p, <<>>)
    \/ op # "init" /\ Len(undo_stack) < MaxLog /\ \E n \in TreeNodes : RecordAddNode(n)
    \/ op # "init" /\ Len(undo_stack) < MaxLog
                   /\ \E n \in VisibleNodes, t \in EditTexts : FinishEditing(n, t)
    \/ op # "init" /\ UndoAction
    \/ op # "init" /\ RedoAction
SpecAdd == InitAdd /\ [][NextAdd]_vars

\* ---------------------------------------------------------------- C27
\* C27: undo with an add_node action of a tree node on top of the undo stack
\* returns true, takes the node out of the tree and leaves on the redo stack
\* a remove_node action for that node
C27_UndoAddRemoves ==
    [][(op' = "undo" /\ undo_stack # <<>> /\ Last(undo_stack).type = "add_node"
          /\ Last(undo_stack).node_id \in TreeNodes)
          => /\ result' = TRUE
             /\ Last(undo_stack).node_id \notin TreeNodes'
             /\ redo_stack' # <<>>
             /\ Last(redo_stack').type = "remove_node"
             /\ Last(redo_stack').node_id = Last(undo_stack).node_id]_vars

\* ---------------------------------------------------------------- observers
\* the node fields the observers of move_to_parent(p, pos) on node n are
\* called with, in order: node_removed from remove_from_parent when n had a
\* parent, node_added from add_child, node_moved at the end
MoveToParentSeen(S, n, p, pos) ==
    LET S1 == RemoveFromParentS(S, n)
        S2 == AddChildS(S1, p, n, pos)
    IN (IF S.parent[n] # None THEN <<S1>> ELSE <<>>) \o <<S2, S2>>

\* the nodes of R deselected
RemoveSetL(L, R) ==
    [L EXCEPT !.selected = @ \ R,
              !.is_selected = [n \in Ids |-> IF n \in R THEN FALSE ELSE @[n]]]

\* the selections the observers of select_range(a, b) are called with: one
\* selection_changed per node that clear_selection deselects, in the
\* iteration order of the set, then one per node added
SelectRangeSeen(L, a, b) ==
    LET vis == GetVisibleNodes
        L1  == ClearSelectionL(L)
        lo  == Min2(IndexOf(vis, a), IndexOf(vis, b))
        hi  == Max2(IndexOf(vis, a), IndexOf(vis, b))
    IN { RemoveSetL(L, R) : R \in SUBSET (L.selected \ {L.focused}) \ {{}} }
       \cup (IF a \in Range(vis) /\ b \in Range(vis)
             THEN { AddRunL(L1, vis, lo, k) : k \in { i \in lo..hi : vis[i] \notin L1.selected } }
             ELSE {})

\* ---------------------------------------------------------------- C28
\* C28: whatever an observer is called with during move_to_parent or
\* select_range is the state before the operation or the state after it
C28_ObserversSeeWholeSteps ==
    op # "init" =>
        /\ \A n \in TreeNodes \ {root} : \A p \in TreeNodes \ ({n} \cup Descendants(n)) :
              \A i \in DOMAIN MoveToParentSeen(Store, n, p, None) :
                  MoveToParentSeen(Store, n, p, None)[i]
                      \in {Store, MoveToParentS(Store, n, p, None)}
        /\ \A a \in VisibleNodes, b \in VisibleNodes :
              \A X \in SelectRangeSeen(Sel, a, b) :
                  X.selected \in {selected_nodes, SelectRangeL(Sel, a, b).selected}

\* ---------------------------------------------------------------- documents
\* what the active TabViewport holds: its tree with the nodes' fields, the
\* tree's selection manager and the two stacks
ActiveDoc ==
    [content |-> content, node_type |-> node_type, todo_status |-> todo_status,
     children |-> children, parent |-> parent, is_folded |-> is_folded,
     is_selected |-> is_selected, is_focused |-> is_focused,
     root |-> root, node_index |-> node_index, selected_nodes |-> selected_nodes,
     focused_node |-> focused_node, anchor_node |-> anchor_node,
     undo_stack |-> undo_stack, redo_stack |-> redo_stack]

\* switch_to_file(file_path, content) for the file that is not shown: its
\* viewport becomes the active one.  The first call creates the viewport and
\* loads the content into it (the root of the fresh LogLogTree is replaced
\* by the load at once); TreeRenderer.selection_anchor is not touched
SwitchToFile ==
    /\ other_doc' = ActiveDoc
    /\ UNCHANGED cliVars
    /\ IF other_doc.root = None
       THEN /\ LoadTreeFromText(text)
            /\ undo_stack' = <<>>
            /\ redo_stack' = <<>>
       ELSE /\ content' = other_doc.content
            /\ node_type' = other_doc.node_type
            /\ todo_status' = other_doc.todo_status
            /\ children' = other_doc.children
            /\ parent' = other_doc.parent
            /\ is_folded' = other_doc.is_folded
            /\ is_selected' = other_doc.is_selected
            /\ is_focused' = other_doc.is_focused
            /\ root' = other_doc.root
            /\ node_index' = other_doc.node_index
            /\ selected_nodes' = other_doc.selected_nodes
            /\ focused_node' = other_doc.focused_node
            /\ anchor_node' = other_doc.anchor_node
            /\ undo_stack' = other_doc.undo_stack
            /\ redo_stack' = other_doc.redo_stack
            /\ UNCHANGED next_id
    /\ op' = "switch"
    /\ result' = TRUE
    /\ UNCHANGED <<selection_anchor, ioVars, ctlVars, hist>>

\* ---------------------------------------------------------------- SpecDocs
\* two files with the same text, each in its own viewport
InitDocs == InitTree /\ text = ViewText
NextDocs ==
    \/ LoadContent
    \/ op # "init" /\ SwitchToFile
    \/ op # "init" /\ \E n \in VisibleNodes : TriangleClick(n)
    \/ op # "init" /\ \E n \in VisibleNodes : SelectSingleNode(n)
    \/ op # "init" /\ \E n \in VisibleNodes : ShiftClick(n)
SpecDocs == InitDocs /\ [][NextDocs]_vars

\* ---------------------------------------------------------------- C29
\* C29: an operation on the active document leaves the other document as it
\* is, and the anchor a shift-click in the active document would use is a
\* node of that document, never one set by a click in the other document
C29_DocumentsIndependent ==
    /\ [](selection_anchor # None => selection_anchor \in TreeNodes)
    /\ [][op' # "switch" => other_doc' = other_doc]_vars

\* ---------------------------------------------------------------- search
\* str.lower() on the letters of the model
ToLower(c) == IF c = "A" THEN "a" ELSE IF c = "B" THEN "b" ELSE IF c = "X" THEN "x" ELSE c
LowerStr(str) == [i \in 1..Len(str) |-> ToLower(str[i])]

\* the operator "in" on strings
Contains(str, q) ==
    \E i \in 0..(Len(str) - Len(q)) : SubSeq(str, i + 1, i + Len(q)) = q

RECURSIVE SearchUnfolded(_, _, _)
RECURSIVE SearchUnfoldedKids(_, _, _, _)
\* variant of search that does not descend into a folded node
SearchUnfolded(n, query, case_sensitive) ==
    LET search_content == IF case_sensitive THEN content[n] ELSE LowerStr(content[n])
        search_query   == IF case_sensitive THEN query ELSE LowerStr(query)
    IN (IF Contains(search_content, search_query) THEN <<n>> ELSE <<>>)
       \o (IF is_folded[n] THEN <<>>
           ELSE SearchUnfoldedKids(children[n], 1, query, case_sensitive))

SearchUnfoldedKids(cs, i, query, case_sensitive) ==
    IF i > Len(cs) THEN <<>>
    ELSE SearchUnfolded(cs[i], query, case_sensitive)
         \o SearchUnfoldedKids(cs, i + 1, query, case_sensitive)

RECURSIVE SearchNode(_, _, _)
RECURSIVE SearchKids(_, _, _, _)
\* LogLogNode.search(query, case_sensitive)
SearchNode(n, query, case_sensitive) ==
    LET search_content == IF case_sensitive THEN content[n] ELSE LowerStr(content[n])
        search_query   == IF case_sensitive THEN query ELSE LowerStr(query)
    IN (IF Contains(search_content, search_query) THEN <<n>> ELSE <<>>)
       \o SearchKids(children[n], 1, query, case_sensitive)

\* for child in self.children: results.extend(child.search(...))
SearchKids(cs, i, query, case_sensitive) ==
    IF i > Len(cs) THEN <<>>
    ELSE SearchNode(cs[i], query, case_sensitive)
         \o SearchKids(cs, i + 1, query, case_sensitive)

\* LogLogTree.search(query, case_sensitive, scope_node)
TreeSearch(query, case_sensitive, scope_node) ==
    SearchNode(IF scope_node # None THEN scope_node ELSE root, query, case_sensitive)

\* a search on the tree; the scope and whether anything was found are kept
Search(query, case_sensitive, scope_node) ==
    /\ result' = (TreeSearch(query, case_sensitive, scope_node) # <<>>)
    /\ last_arg' = scope_node
    /\ op' = "search"
    /\ UNCHANGED <<nodeVars, flagVars, treeVars, selVars, undoVars, text, saved,
                   ctlVars, docVars, hist>>

\* ---------------------------------------------------------------- SpecSearch
\* "- Ab" with the child "- b" and its child "- aB", then "- a"
SearchText1 == <<"-", " ", "A", "b", "\n", "\t", "-", " ", "b", "\n",
                 "\t", "\t", "-", " ", "a", "B", "\n", "-", " ", "a">>
\* "- ba" with the children "- BA" and "- a"
SearchText2 == <<"-", " ", "b", "a", "\n", "\t", "-", " ", "B", "A", "\n",
                 "\t", "-", " ", "a">>
SearchTexts == {SearchText1, SearchText2}

MaxQueryLen == 2
Letters == {"a", "A", "b", "B"}
Queries == UNION { [1..k -> Letters] : k \in 0..MaxQueryLen }

InitSearch == InitTree /\ text \in SearchTexts
NextSearch ==
    \/ LoadContent
    \/ op # "init" /\ \E n \in VisibleNodes : TriangleClick(n)
    \/ op # "init" /\ \E n \in TreeNodes : ToggleFoldRecursive(n)
    \/ op # "init" /\ \E q \in Queries, cs \in BOOLEAN, n \in TreeNodes \cup {None} :
                          Search(q, cs, n)
SpecSearch == InitSearch /\ [][NextSearch]_vars

\* ---------------------------------------------------------------- C30
\* the query occurs in the string, letters compared with or without case
Occurs(str, q, case_sensitive) ==
    \E i \in 0..(Len(str) - Len(q)) :
        \A k \in 1..Len(q) :
            \/ str[i + k] = q[k]
            \/ ~case_sensitive /\ ToLower(str[i + k]) = ToLower(q[k])

\* the node and everything below it
Subtree(n) == {d \in TreeNodes \cup {root} : n \in Ancestry(d)}

\* C30: for every scope, query and case flag, and whatever the fold flags
\* are, search returns each node of the scope's subtree whose content
\* contains the query once, in depth-first pre-order, and no other node
C30_SearchExact ==
    op # "init" =>
        \A scope \in TreeNodes \cup {None}, q \in Queries, cs \in BOOLEAN :
            \E r \in {TreeSearch(q, cs, scope)} :
                /\ Range(r) = { d \in Subtree(IF scope # None THEN scope ELSE root) :
                                  Occurs(content[d], q, cs) }
                /\ \A i, j \in 1..Len(r) :
                      i < j => PreOrderBefore(PathIdx(r[i]), PathIdx(r[j]))

\* a search has found something while a node that matches a query
\* only without case is hidden under a folded ancestor
C30_Witness ==
    /\ op = "search"
    /\ result = TRUE
    /\ \E d \in TreeNodes \ VisibleNodes :
          /\ d \in Range(TreeSearch(<<"a", "b">>, FALSE, None))
          /\ d \notin Range(TreeSearch(<<"a", "b">>, TRUE, None))

\* ---------------------------------------------------------------- C34
\* the lines of a text; the empty text has none
LinesOf(t) == IF t = <<>> THEN <<>> ELSE Split(t)

HasContent(n) == Strip(content[n]) # <<>>

\* C34: the lines serialize writes are the lines of the non-root nodes whose
\* content is not empty after trimming, one each, in depth-first order
C34_OneLinePerNode ==
    op # "init" =>
        \E ns \in {SelectSeq(GetAllNodes, HasContent)} :
            LinesOf(Serialize) = [i \in 1..Len(ns) |-> NodeLine(ns[i], Depth(ns[i]) - 1)]

\* ---------------------------------------------------------------- '?' and '-' keys
\* handle_keyboard_event for the keys '?' and '-': set_todo_status is called
\* with the plain string "unknown" or "progress", which is stored as it is
\* and is not equal to any member of the enumeration TodoStatus; the model
\* writes such a value with the prefix "str_"
KeyStatus(word, name) ==
    IF focused_node = None
    THEN /\ IF GetVisibleNodes # <<>>
            THEN CommitSel(SetFocusL(Sel, GetVisibleNodes[1]))
            ELSE UNCHANGED <<selected_nodes, focused_node, anchor_node, flagVars>>
         /\ op' = "key"
         /\ result' = TRUE
         /\ UNCHANGED <<nodeVars, treeVars, selection_anchor, undoVars, ioVars,
                        ctlVars, docVars, hist>>
    ELSE /\ IF todo_status[focused_node] # "none"
            THEN /\ node_type' = [node_type EXCEPT ![focused_node] = "todo"]
                 /\ todo_status' = [todo_status EXCEPT ![focused_node] = word]
                 /\ CommitLog(RecordActionU(Log,
                        StatusAction(focused_node, todo_status[focused_node], word)))
                 /\ hist' = [phase |-> "applied", node |-> focused_node,
                             pre |-> Triple(focused_node),
                             post |-> [content |-> content[focused_node],
                                       node_type |-> "todo", todo_status |-> word]]
            ELSE UNCHANGED <<node_type, todo_status, undoVars, hist>>
         /\ op' = name
         /\ result' = TRUE
         /\ UNCHANGED <<content, children, parent, is_folded, flagVars, treeVars,
                        selVars, ioVars, ctlVars, docVars>>

KeyQuestion == KeyStatus("str_unknown", "key_unknown")
KeyMinus == KeyStatus("str_progress", "key_progress")

\* ---------------------------------------------------------------- SpecKeys
InitKeys == InitTree /\ text = UndoText
NextKeys ==
    \/ LoadContent
    \/ op # "init" /\ \E n \in VisibleNodes : SelectSingleNode(n)
    \/ op # "init" /\ Len(undo_stack) < MaxLog /\ KeyQuestion
    \/ op # "init" /\ Len(undo_stack) < MaxLog /\ KeyMinus
    \/ op # "init" /\ Len(undo_stack) < MaxLog /\ KeySpace
    \/ op # "init" /\ UndoAction
    \/ op # "init" /\ SaveToFile
SpecKeys == InitKeys /\ [][NextKeys]_vars

\* ---------------------------------------------------------------- C35
\* C35: after '?' (or '-') on a focused todo node, serialize writes the
\* node's line with the marker [?] (or [-])
C35_KeyMarkerWritten ==
    /\ (op = "key_unknown" /\ todo_status[focused_node] # "none")
          => Spaces(4 * (Depth(focused_node) - 1)) \o <<"[", "?", "]", " ">>
                 \o content[focused_node] \in Range(LinesOf(Serialize))
    /\ (op = "key_progress" /\ todo_status[focused_node] # "none")
          => Spaces(4 * (Depth(focused_node) - 1)) \o <<"[", "-", "]", " ">>
                 \o content[focused_node] \in Range(LinesOf(Serialize))

\* ---------------------------------------------------------------- C36
HasMarker(c) ==
    \/ StartsWith(c, <<"[", "]">>)
    \/ StartsWith(c, <<"[", "x", "]">>)
    \/ StartsWith(c, <<"[", "-", "]">>)
    \/ StartsWith(c, <<"[", "?", "]">>)

\* C36: saving an in-place edit whose new text does not begin with a TODO
\* marker leaves the type and the TODO status of the edited node as they were.
C36_EditKeepsStatus ==
    [][\A n \in Ids, t \in EditTexts :
          (FinishEditing(n, t) /\ ~HasMarker(Strip(t)))
              => (node_type'[n] = node_type[n] /\ todo_status'[n] = todo_status[n])]_vars

\* ---------------------------------------------------------------- Left / Right keys
\* move_focus_left: an unfolded node with children is folded; otherwise the
\* parent, unless it is the root, is selected alone
MoveFocusLeft ==
    /\ focused_node # None
    /\ IF children[focused_node] # <<>> /\ ~is_folded[focused_node]
       THEN /\ is_folded' = ToggleFoldF(is_folded, focused_node, FALSE)
            /\ op' = "move_fold"
            /\ result' = TRUE
            /\ UNCHANGED <<content, node_type, todo_status, children, parent, flagVars,
                           treeVars, selVars, undoVars, ioVars, ctlVars, docVars, hist>>
       ELSE IF parent[focused_node] # None /\ node_type[parent[focused_node]] # "root"
       THEN /\ CommitSel(SelectSingleL(Sel, parent[focused_node]))
            /\ selection_anchor' = parent[focused_node]
            /\ SelDone("move_focus")
       ELSE /\ UNCHANGED <<selVars, flagVars>>
            /\ SelDone("key")

\* move_focus_right: a folded node with children is unfolded; an unfolded one
\* hands the focus to its first child
MoveFocusRight ==
    /\ focused_node # None
    /\ IF children[focused_node] # <<>> /\ is_folded[focused_node]
       THEN /\ is_folded' = ToggleFoldF(is_folded, focused_node, FALSE)
            /\ op' = "move_fold"
            /\ result' = TRUE
            /\ UNCHANGED <<content, node_type, todo_status, children, parent, flagVars,
                           treeVars, selVars, undoVars, ioVars, ctlVars, docVars, hist>>
       ELSE IF children[focused_node] # <<>>
       THEN /\ CommitSel(SelectSingleL(Sel, children[focused_node][1]))
            /\ selection_anchor' = children[focused_node][1]
            /\ SelDone("move_focus")
       ELSE /\ UNCHANGED <<selVars, flagVars>>
            /\ SelDone("key")

\* ---------------------------------------------------------------- SpecFoldNav
\* fold commands and arrow keys on the outlines of SpecFold; the focus is
\* first set by a click on a visible node
InitFoldNav == InitTree /\ text \in FoldTexts
NextFoldNav ==
    \/ LoadContent
    \/ op # "init" /\ \E n \in VisibleNodes : SelectSingleNode(n)
    \/ op # "init" /\ \E n \in VisibleNodes : TriangleClick(n)
    \/ op # "init" /\ \E L \in Levels : FoldToLevel(L)
    \/ op # "init" /\ \E L \in Levels : FocusMode(L)
    \/ op # "init" /\ UnfoldAll
    \/ op # "init" /\ MoveFocusUp
    \/ op # "init" /\ MoveFocusDown
    \/ op # "init" /\ MoveFocusLeft
    \/ op # "init" /\ MoveFocusRight
SpecFoldNav == InitFoldNav /\ [][NextFoldNav]_vars

\* ---------------------------------------------------------------- C37
\* C37: after any sequence of fold commands and arrow keys that starts with
\* the focus on a visible node, the focused node is in the visible sequence.
C37_FocusStaysVisible ==
    (op # "init" /\ focused_node # None) => focused_node \in VisibleNodes

\* ---------------------------------------------------------------- SpecAttach
\* "- a" followed by an empty item: clicks, removal of a node, merging a
\* node into its previous sibling, and save followed by reload
AttachText == <<"-", " ", "a", "\n", "-", " ">>

InitAttach == InitTree /\ text = AttachText
NextAttach ==
    \/ LoadContent
    \/ op # "init" /\ \E n \in VisibleNodes : SelectSingleNode(n)
    \/ op # "init" /\ \E n \in VisibleNodes : CtrlClick(n)
    \/ op # "init" /\ \E n \in VisibleNodes : ShiftClick(n)
    \/ op # "init" /\ \E n \in TreeNodes : RemoveFromParent(n)
    \/ op # "init" /\ \E n \in TreeNodes : MergeWithPrevious(n)
    \/ op # "init" /\ SaveToFile
    \/ Reload
SpecAttach == InitAttach /\ [][NextAttach]_vars

\* ---------------------------------------------------------------- C38
\* C38: in every state the focused node, every selected node and the range
\* anchor are nodes of the current tree.
C38_SelectionAttached ==
    /\ focused_node \in TreeNodes \cup {None}
    /\ selected_nodes \subseteq TreeNodes
    /\ selection_anchor \in TreeNodes \cup {None}

\* ---------------------------------------------------------------- SpecDent
\* indent, outdent and sibling moves on the outlines of SpecFold
InitDent == InitTree /\ text \in FoldTexts
NextDent ==
    \/ LoadContent
    \/ op # "init" /\ \E n \in TreeNodes : Indent(n)
    \/ op # "init" /\ \E n \in TreeNodes : Outdent(n)
    \/ op # "init" /\ \E n \in TreeNodes : MoveUp(n)
    \/ op # "init" /\ \E n \in TreeNodes : MoveDown(n)
SpecDent == InitDent /\ [][NextDent]_vars

\* ---------------------------------------------------------------- C40
\* C40: in every state, for every node with a previous sibling, indent
\* followed by outdent gives back every parent and every list of children;
\* and no step of indent or outdent changes the nodes of the tree or lists
\* one of them twice.
C40_IndentOutdentRestores ==
    /\ [](\A n \in TreeNodes :
            CanIndentS(Store, n) =>
                /\ IndentS(Store, n) # Store
                /\ OutdentS(IndentS(Store, n), n) = Store)
    /\ [][\A n \in TreeNodes :
            (Indent(n) \/ Outdent(n)) =>
                /\ TreeNodes' = TreeNodes
                /\ Cardinality(TreeNodes') = Len(GetAllNodes')]_vars

\* a node with children of its own and a previous sibling, after a
\* structural step
C40_Witness ==
    /\ op = "struct"
    /\ \E n \in TreeNodes :
          /\ CanIndentS(Store, n)
          /\ children[n] # <<>>
          /\ OutdentS(IndentS(Store, n), n) = Store

\* ================================================================ command-line core
\* file.readlines(): the lines of the text, each with its line end
RECURSIVE ReadLinesAcc(_, _, _)
ReadLinesAcc(s, cur, acc) ==
    IF s = <<>> THEN (IF cur = <<>> THEN acc ELSE Append(acc, cur))
    ELSE IF Head(s) = "\n" THEN ReadLinesAcc(Tail(s), <<>>, Append(acc, Append(cur, "\n")))
    ELSE ReadLinesAcc(Tail(s), Append(cur, Head(s)), acc)

ReadLines(t) == ReadLinesAcc(t, <<>>, <<>>)

RECURSIVE ExpandTabs(_)
\* line.replace("\t", " " * 4)
ExpandTabs(line) ==
    IF line = <<>> THEN <<>>
    ELSE (IF Head(line) = "\t" THEN Spaces(4) ELSE <<Head(line)>>) \o ExpandTabs(Tail(line))

RECURSIVE CliDepth(_)
\* while line.startswith(" " * 4): depth += 1; line = line[4:]
CliDepth(line) == IF StartsWith(line, Spaces(4)) THEN 1 + CliDepth(DropN(line, 4)) ELSE 0

CliRest(line) == DropN(line, 4 * CliDepth(line))

\* TreeNode.is_todo: ^\[.\] or ^\[\] on the lowered data
IsTodo(data) ==
    LET l == LowerStr(data)
    IN \/ Len(l) >= 3 /\ l[1] = "[" /\ l[2] # "\n" /\ l[3] = "]"
       \/ StartsWith(l, <<"[", "]">>)

\* TreeNode.todo_status: False, True, "in_progress" and None as strings
TodoStatusOf(data) ==
    LET l == LowerStr(data)
    IN IF StartsWith(l, <<"[", "]">>)
         THEN [status |-> "False", data |-> Strip(DropN(data, 2))]
       ELSE IF StartsWith(l, <<"[", " ", "]">>)
         THEN [status |-> "False", data |-> Strip(DropN(data, 3))]
       ELSE IF StartsWith(l, <<"[", "x", "]">>)
         THEN [status |-> "True", data |-> Strip(DropN(data, 3))]
       ELSE IF StartsWith(l, <<"[", "-", "]">>)
         THEN [status |-> "in_progress", data |-> Strip(DropN(data, 3))]
       ELSE [status |-> "None", data |-> Strip(DropN(data, 3))]

\* TreeNode(data=...): get_type; a regular node has no status attribute
GetType(data) ==
    LET t == IF IsTodo(data)
             THEN [type |-> "todo", status |-> TodoStatusOf(data).status,
                   data |-> TodoStatusOf(data).data]
             ELSE [type |-> "regular", status |-> "absent", data |-> data]
    IN IF t.data # <<>> /\ LowerStr(t.data)[1] = "-"
       THEN [t EXCEPT !.data = Strip(DropN(t.data, 1))]
       ELSE t

RECURSIVE PopDeeper(_, _)
\* while stack and depth <= stack[-1][0]: stack.pop()
PopDeeper(stack, depth) ==
    IF stack # <<>> /\ depth <= stack[Len(stack)][1]
    THEN PopDeeper(SubSeq(stack, 1, Len(stack) - 1), depth)
    ELSE stack

RECURSIVE BuildLines(_, _, _)
\* the loop of build_tree_from_text: the nodes in creation order, each with
\* the index of its parent (0 is the root); the stack holds <<depth, node>>
BuildLines(lines, stack, ns) ==
    IF lines = <<>> THEN ns
    ELSE LET expanded == ExpandTabs(Head(lines))
             depth == CliDepth(expanded)
             line  == CliRest(expanded)
         IN IF Strip(line) = <<>> THEN BuildLines(Tail(lines), stack, ns)
            ELSE LET st == PopDeeper(stack, depth)
                     nd == GetType(line)
                     e  == [par |-> st[Len(st)][2], data |-> nd.data,
                            type |-> nd.type, status |-> nd.status]
                 IN BuildLines(Tail(lines), Append(st, <<depth, Len(ns) + 1>>),
                               Append(ns, e))

BuildTreeFromText(text_lines) == BuildLines(text_lines, << <<0 - 1, 0>> >>, <<>>)

RECURSIVE CliDepthOf(_, _)
\* number of ancestors of node i of the built tree; the root is node 0
CliDepthOf(ns, i) == IF i = 0 THEN 0 ELSE 1 + CliDepthOf(ns, ns[i].par)

\* ---------------------------------------------------------------- to_md
RECURSIVE ShallowestLeafDepth(_, _, _)
RECURSIVE MinLeafDepth(_, _, _, _)
\* _get_shallowest_leaf_depth(current_depth) of node i
ShallowestLeafDepth(ns, i, current_depth) ==
    LET ks == ChildrenOf(ns, i, 1)
    IN IF ks = <<>> THEN current_depth ELSE MinLeafDepth(ns, ks, 1, current_depth + 1)

\* the minimum over the children ks[j..]
MinLeafDepth(ns, ks, j, d) ==
    IF j = Len(ks) THEN ShallowestLeafDepth(ns, ks[j], d)
    ELSE Min2(ShallowestLeafDepth(ns, ks[j], d), MinLeafDepth(ns, ks, j + 1, d))

RECURSIVE Hashes(_)
Hashes(n) == IF n <= 0 THEN <<>> ELSE <<"#">> \o Hashes(n - 1)

\* the checkbox written for a status
TodoBox(status) ==
    IF status = "True" THEN <<"[", "x", "]">>
    ELSE IF status = "False" THEN <<"[", " ", "]">>
    ELSE IF status = "in_progress" THEN <<"[", "-", "]">>
    ELSE <<"[", "?", "]">>

\* variant of the cutoff that looks at header_levels only
HeaderCutoffLevelsOnly(shallowest_leaf_depth, header_levels) == header_levels + 1

\* header_cutoff = min(_shallowest_leaf_depth, header_levels + 1)
HeaderCutoff(shallowest_leaf_depth, header_levels) ==
    Min2(shallowest_leaf_depth, header_levels + 1)

\* variant of the list indentation that counts from the root
ListIndentFromRoot(current_depth, header_cutoff) == Spaces(2 * current_depth)

\* indent = "  " * (current_depth - header_cutoff)
ListIndent(current_depth, header_cutoff) == Spaces(2 * (current_depth - header_cutoff))

\* what to_md writes for the node itself
NodeMd(nd, header_levels, current_depth, shallowest_leaf_depth) ==
    LET header_cutoff == HeaderCutoff(shallowest_leaf_depth, header_levels)
    IN IF current_depth < header_cutoff
       THEN Hashes(current_depth) \o <<" ">>
              \o (IF nd.type = "todo" THEN TodoBox(nd.status) \o <<" ">> \o nd.data
                  ELSE nd.data)
              \o <<"\n", "\n">>
       ELSE ListIndent(current_depth, header_cutoff)
              \o (IF nd.type = "todo" THEN <<"-", " ">> \o TodoBox(nd.status) \o <<" ">>
                  ELSE <<"-", " ">>)
              \o nd.data \o <<"\n">>

RECURSIVE ToMdNode(_, _, _, _, _)
RECURSIVE ToMdKids(_, _, _, _, _, _)
\* to_md of a node that is not the root: the node, then its children
ToMdNode(ns, i, header_levels, current_depth, sld) ==
    NodeMd(ns[i], header_levels, current_depth, sld)
        \o ToMdKids(ns, ChildrenOf(ns, i, 1), 1, header_levels, current_depth + 1, sld)

ToMdKids(ns, ks, j, header_levels, d, sld) ==
    IF j > Len(ks) THEN <<>>
    ELSE ToMdNode(ns, ks[j], header_levels, d, sld)
           \o ToMdKids(ns, ks, j + 1, header_levels, d, sld)

EndsWith(s, p) == Len(s) >= Len(p) /\ SubSeq(s, Len(s) - Len(p) + 1, Len(s)) = p

RECURSIVE ToMdRootLoop(_, _, _, _, _, _)
\* the loop of the root over its children: a line end is added after a
\* child whose text does not end in an empty line
ToMdRootLoop(ns, ks, j, header_levels, sld, acc) ==
    IF j > Len(ks) THEN acc
    ELSE LET r1 == acc \o ToMdNode(ns, ks[j], header_levels, 1, sld)
             r2 == IF r1 # <<>> /\ ~EndsWith(r1, <<"\n", "\n">>) THEN r1 \o <<"\n">> ELSE r1
         IN ToMdRootLoop(ns, ks, j + 1, header_levels, sld, r2)

\* root.to_md(header_levels)
ToMd(ns, header_levels) ==
    RStrip(ToMdRootLoop(ns, ChildrenOf(ns, 0, 1), 1, header_levels,
                        ShallowestLeafDepth(ns, 0, 0), <<>>)) \o <<"\n">>

\* ---------------------------------------------------------------- from_md
RECURSIVE JoinSpace(_)
\* ' '.join(lines)
JoinSpace(lines) ==
    IF lines = <<>> THEN <<>>
    ELSE IF Len(lines) = 1 THEN lines[1]
    ELSE lines[1] \o <<" ">> \o JoinSpace(Tail(lines))

\* flush_paragraph on the state of the conversion
FlushParagraph(st) ==
    LET paragraph_text == Strip(JoinSpace(st.paragraph_lines))
        r == IF st.paragraph_lines # <<>> /\ paragraph_text # <<>>
             THEN Append(st.result_lines,
                         Spaces(4 * (st.current_indent \div 4)) \o <<"-", " ">> \o paragraph_text)
             ELSE st.result_lines
    IN [st EXCEPT !.result_lines = r, !.paragraph_lines = <<>>, !.in_paragraph = FALSE]

RECURSIVE GetHeaderLevel(_)
\* the number of leading '#'
GetHeaderLevel(line) ==
    IF line # <<>> /\ Head(line) = "#" THEN 1 + GetHeaderLevel(Tail(line)) ELSE 0

IsTodoItem(line) ==
    LET stripped == LStrip(line)
    IN /\ StartsWith(stripped, <<"-", " ", "[">>)
       /\ Len(stripped) > 4
       /\ stripped[4] \in {" ", "x", "?"}

\* get_list_indent_level: a space counts 1, a tab 4
GetListIndentLevel(line) == IndentWidth(line)

\* one pass of the loop over the lines
FromMdLine(st, raw) ==
    LET line == RStrip(raw)
        header_level == GetHeaderLevel(line)
    IN IF Strip(line) = <<>>
         THEN (IF st.in_paragraph THEN FlushParagraph(st) ELSE st)
       ELSE IF header_level > 0
         THEN [FlushParagraph(st) EXCEPT
                 !.result_lines = Append(@, Spaces(4 * (header_level - 1)) \o <<"-", " ">>
                                              \o Strip(DropN(line, header_level))),
                 !.current_indent = header_level * 4]
       ELSE IF IsTodoItem(line)
         THEN LET total == st.current_indent \div 4 + GetListIndentLevel(line) \div 2
              IN [FlushParagraph(st) EXCEPT
                    !.result_lines = Append(@, Spaces(4 * total) \o DropN(LStrip(line), 2))]
       ELSE IF StartsWith(LStrip(line), <<"-", " ">>)
         THEN LET total == st.current_indent \div 4 + GetListIndentLevel(line) \div 2
              IN [FlushParagraph(st) EXCEPT
                    !.result_lines = Append(@, Spaces(4 * total) \o <<"-", " ">>
                                                 \o DropN(LStrip(line), 2))]
       ELSE [st EXCEPT !.in_paragraph = TRUE,
                       !.paragraph_lines =
                           Append(IF st.in_paragraph THEN @ ELSE <<>>, Strip(line))]

RECURSIVE FromMdLoop(_, _)
FromMdLoop(st, lines) ==
    IF lines = <<>> THEN st ELSE FromMdLoop(FromMdLine(st, Head(lines)), Tail(lines))

\* from_md(markdown_text)
FromMd(markdown_text) ==
    LET st0 == [result_lines |-> <<>>, current_indent |-> 0, in_paragraph |-> FALSE,
                paragraph_lines |-> <<>>]
    IN Join(FlushParagraph(FromMdLoop(st0, Split(markdown_text))).result_lines) \o <<"\n">>

\* ---------------------------------------------------------------- command-line actions
CliDone(name) ==
    /\ op' = name
    /\ result' = TRUE
    /\ UNCHANGED <<nodeVars, flagVars, treeVars, selVars, undoVars, text, saved,
                   ctlVars, other_doc, hist>>

\* build_tree_from_file on a file that holds text
BuildTree ==
    /\ op \in {"init", "load"}
    /\ cli_tree' = BuildTreeFromText(ReadLines(text))
    /\ CliDone("build")
    /\ UNCHANGED <<md, md_txt, last_arg>>

\* md = root.to_md(header_levels)
ExportMd(header_levels) ==
    /\ op \in {"build", "to_md", "from_md"}
    /\ md' = ToMd(cli_tree, header_levels)
    /\ last_arg' = header_levels
    /\ CliDone("to_md")
    /\ UNCHANGED <<cli_tree, md_txt>>

\* from_md(md)
ImportMd ==
    /\ op = "to_md"
    /\ md_txt' = FromMd(md)
    /\ CliDone("from_md")
    /\ UNCHANGED <<cli_tree, md, last_arg>>

\* ---------------------------------------------------------------- SpecMd
\* outlines of up to MaxMdLines lines, each at one of three depths: an
\* item or an in-progress TODO item
MaxMdLines == 3
MaxHeaderLevels == 2
MdIndents == { <<>>, <<"\t">>, Spaces(8) }
MdBodies == { <<"-", " ", "a">>, <<"[", "-", "]", " ", "b">> }
MdInputLines == { i \o b : i \in MdIndents, b \in MdBodies }
MdTexts == { Join(ls) : ls \in UNION { [1..k -> MdInputLines] : k \in 0..MaxMdLines } }

InitMd == InitTree /\ text \in MdTexts
NextMd ==
    \/ BuildTree
    \/ \E h \in 0..MaxHeaderLevels : ExportMd(h)
    \/ ImportMd
SpecMd == InitMd /\ [][NextMd]_vars

\* ---------------------------------------------------------------- C31
\* depth-first sequence of a built tree: depth, data, type and status
CliSeq(ns) ==
    [i \in 1..Len(ns) |-> [depth |-> CliDepthOf(ns, i), data |-> ns[i].data,
                           type |-> ns[i].type, status |-> ns[i].status]]

\* depth of the shallowest node without children; 0 for the empty tree
LeafMin(ns) ==
    IF ns = <<>> THEN 0
    ELSE LET ds == { CliDepthOf(ns, i) : i \in { j \in 1..Len(ns) : ChildrenOf(ns, j, 1) = <<>> } }
         IN CHOOSE d \in ds : \A e \in ds : d <= e

Cutoff(ns, h) == Min2(LeafMin(ns), h + 1)

\* text of a node: its data, behind its checkbox for a TODO item
MdBody(nd) == IF nd.type = "todo" THEN TodoBox(nd.status) \o <<" ">> \o nd.data ELSE nd.data

\* the lines of the Markdown text that are not blank
MdLines == NonBlank(Split(md))

\* C31: the Markdown written with header_levels = H has one line per node,
\* in depth-first order; with cutoff = min(shallowest leaf depth, H + 1) the
\* line of a node of depth d < cutoff is the header of level d, and that of a
\* node of depth d >= cutoff is a bullet behind 2 * (d - cutoff) spaces.
C31_HeaderCutoff ==
    op \in {"to_md", "from_md"} =>
        \E c \in {Cutoff(cli_tree, last_arg)} :
            /\ Len(MdLines) = Len(cli_tree)
            /\ \A i \in 1..Len(cli_tree) :
                  \E d \in {CliDepthOf(cli_tree, i)} :
                      RStrip(MdLines[i]) =
                          RStrip(IF d < c
                                 THEN Hashes(d) \o <<" ">> \o MdBody(cli_tree[i])
                                 ELSE Spaces(2 * (d - c)) \o <<"-", " ">> \o MdBody(cli_tree[i]))

\* a header, a bullet at the cutoff and an indented bullet in one export
C31_Witness ==
    /\ op = "to_md"
    /\ \E i, j \in 1..Len(cli_tree) :
          /\ CliDepthOf(cli_tree, i) < Cutoff(cli_tree, last_arg)
          /\ CliDepthOf(cli_tree, j) > Cutoff(cli_tree, last_arg)
          /\ StartsWith(MdLines[i], <<"#", " ">>)
          /\ StartsWith(MdLines[j], <<" ", " ", "-", " ">>)

\* ---------------------------------------------------------------- C32
\* C32: in the Markdown written with header_levels = H no node without
\* children has a header line, every node at the depth of a header line has a
\* child, and no header has more than H '#'.
C32_HeadersHaveContent ==
    op \in {"to_md", "from_md"} =>
        /\ Len(MdLines) = Len(cli_tree)
        /\ \A i \in 1..Len(cli_tree) :
              GetHeaderLevel(MdLines[i]) > 0 =>
                  /\ GetHeaderLevel(MdLines[i]) <= last_arg
                  /\ \A j \in 1..Len(cli_tree) :
                        CliDepthOf(cli_tree, j) = CliDepthOf(cli_tree, i)
                            => ChildrenOf(cli_tree, j, 1) # <<>>

\* an export with a header in which a leaf, not header_levels, set the cutoff
C32_Witness ==
    /\ op = "to_md"
    /\ LeafMin(cli_tree) <= last_arg
    /\ \E i \in 1..Len(cli_tree) : GetHeaderLevel(MdLines[i]) > 0
    /\ \E j \in 1..Len(cli_tree) : ChildrenOf(cli_tree, j, 1) = <<>> /\ GetHeaderLevel(MdLines[j]) = 0

\* ---------------------------------------------------------------- C33
\* C33: the outline from_md makes of to_md's text parses to the depth-first
\* sequence (depth, content, type, status) of the tree that was exported.
C33_MdRoundTrip ==
    op = "from_md" => CliSeq(BuildTreeFromText(ReadLines(md_txt))) = CliSeq(cli_tree)

\* ---------------------------------------------------------------- SpecBoth
\* the editor's parser and the command-line parser on the same text
InitBoth == InitTree /\ text \in Texts
NextBoth ==
    \/ LoadContent
    \/ op = "load" /\ BuildTree
SpecBoth == InitBoth /\ [][NextBoth]_vars

\* ---------------------------------------------------------------- C39
\* the editor's names for the type and the status of a command-line node
AsNodeType(type) == IF type = "todo" THEN "todo" ELSE "item"

AsTodoStatus(status) ==
    IF status = "False" THEN "pending"
    ELSE IF status = "True" THEN "complete"
    ELSE IF status = "in_progress" THEN "progress"
    ELSE IF status = "None" THEN "unknown"
    ELSE "none"

\* depth-first sequence of the editor's tree
GuiSeq ==
    [i \in 1..Len(GetAllNodes) |->
        \* GetAllNodes[i] is the i-th node below the root
        [depth |-> Depth(GetAllNodes[i]), data |-> content[GetAllNodes[i]],
         type |-> node_type[GetAllNodes[i]], status |-> todo_status[GetAllNodes[i]]]]

\* C39: for every text, build_tree_from_text and load_from_text give the
\* same depth-first sequence of (depth, content, type, status).
C39_ParsersAgree ==
    op = "build" =>
        GuiSeq = [i \in 1..Len(cli_tree) |->
                    [depth |-> CliDepthOf(cli_tree, i), data |-> cli_tree[i].data,
                     type |-> AsNodeType(cli_tree[i].type),
                     status |-> AsTodoStatus(cli_tree[i].status)]]

====
